---- MODULE Spec2Model ----
(***************************************************************************)
(* Model of src/facturas.py: the invoice discovery / expansion / filter /  *)
(* per-entry fetch flow of descargar_facturas and its helpers.             *)
(*                                                                         *)
(* Calendar dates are ordinals: a smaller number is an earlier day.        *)
(*   ShortYearDate     a date whose year is below 1000                     *)
(*   1 .. MaxDay       ordinary dates (four-digit years, before date_max)  *)
(*   date_max          datetime.date.max (9999-12-31)                      *)
(*   NoDate            Python's None where an Optional[date] is expected   *)
(* A text is a pair <<kind, d>>: kind "date" is a text in which            *)
(* _parse_human_date_to_dateobj finds the date d, kind "junk" is a text    *)
(* in which it finds none.                                                 *)
(***************************************************************************)
EXTENDS Integers, Sequences, FiniteSets, TLC

\* ---------------------------------------------------------------- bounds
MaxItems == 2
MaxRoundsArg == 3
MaxFrames == 3
MaxNodes == 2

\* ------------------------------------------------------ program constants
NoDate == -1
ShortYearDate == 0
date_max == 3
MaxDay == date_max - 1
InitialRounds == 25
AllRounds == 60

Dates == ShortYearDate..date_max
OptDates == Dates \cup {NoDate}
Today == 1..MaxDay
Texts == {<<"junk", NoDate>>} \cup {<<"date", d>> : d \in Dates}

VARIABLES
  pc,            \* position in the code
  dfrom, dto,    \* parsed range bounds (NoDate when absent)
  download_all,  \* the download_all argument
  browser,       \* "none" | "open" | "closed"
  dom,           \* the listing as the page currently shows it: link texts in document order
  all_items,     \* all_items: the last collected (href, txt) pairs
  max_rounds, rounds, last_count,   \* locals of _expand_all_invoices_all_languages
  n_items,       \* len(items) of the round just run (0 outside the loop)
  ret,           \* where the running reveal loop returns to
  filtered,      \* the work queue
  idx,           \* 1-based position in the work queue
  d_real,        \* authoritative date of the open entry (NoDate when none is open)
  download,      \* whether a download object was captured for the open entry
  descargadas, errores,             \* the counters of the item loop
  result,        \* what the invocation gave its caller
  fromClicks,    \* from-driven loop: expansion attempts made so far (saturating)
  skipped,       \* items skipped by the second range check
  persisted,     \* items whose artifact reached its destination path
  how,           \* how the open entry's download ended: "" | "nodl" | "save_as" | "moved" | "failed"
  date_from, date_to,   \* the date_from / date_to arguments as the caller gave them
  arg, out,      \* a helper function on its own: its argument and what it gave back
  runner,        \* the batch runner in use: "excel" | "sheet" ("none" outside a batch run)
  df,            \* the rows as the runner read them (the DataFrame / the rows list)
  sheet,         \* the row source itself (the workbook file / the worksheet)
  row,           \* 1-based position of the batch loop
  respuesta,     \* how the core invocation for the current row ended
  procesadas, saltadas, log_entries,   \* the counters and log of the batch loop
  calls,         \* the rows for which the core was invoked, in order of invocation
  ok_clicked,    \* ok_clicked of the download strategies
  pos,           \* a helper's loop over its list of labels or selectors: entries gone through
  tried,         \* the click attempts a helper has made so far, in order
  trail,         \* the lifecycle states the current work item has entered, in order
  state_writes,  \* the calls of context.storage_state(path=state_file) so far, in order
  has_cookies,   \* whether the stored session file, if any, still opens the dashboard
  entrada_tag, usuario_tag,   \* the entrada_tag / usuario_tag arguments of the invocation
  files,         \* the destination paths written so far, each with the queue item last saved there
  req            \* the POST requests of the HTTP endpoint: where each one stands

vars == <<pc, dfrom, dto, download_all, browser, dom, all_items, max_rounds, rounds,
          last_count, n_items, ret, filtered, idx, d_real, download, descargadas,
          errores, result, fromClicks, skipped, persisted, how, date_from, date_to,
          arg, out, runner, df, sheet, row, respuesta, procesadas, saltadas,
          log_entries, calls, ok_clicked, pos, tried, trail, state_writes, has_cookies,
          entrada_tag, usuario_tag, files, req>>

\* ------------------------------------------------------------ pure helpers
Min2(a, b) == IF a <= b THEN a ELSE b

\* _parse_human_date_to_dateobj on a text of the model
_parse_human_date_to_dateobj(txt) == IF txt[1] = "date" THEN txt[2] ELSE NoDate

inRangeLower_excl(d, from) == ~(from # NoDate /\ d <= from)
inRangeUpper_excl(d, to) == ~(to # NoDate /\ d >= to)
_in_range_day_excl(d, from, to) == inRangeLower_excl(d, from) /\ inRangeUpper_excl(d, to)
_in_range_day_either(d, from, to) == ~(from # NoDate /\ d < from) \/ ~(to # NoDate /\ d > to)
\* _in_range_day(d, dfrom, dto): a date object is always truthy, so "if dfrom" is
\* "dfrom is not None"
_in_range_day(d, from, to) ==
  IF from # NoDate /\ d < from THEN FALSE
  ELSE IF to # NoDate /\ d > to THEN FALSE
  ELSE TRUE

\* _collect_invoice_items: (href, txt) pairs in document order; the href of a link
\* is its position in the document. On an evaluate failure the result is [].
_collect_invoice_items(d, ok) == IF ok THEN [i \in 1..Len(d) |-> <<i, d[i]>>] ELSE <<>>

\* What a scroll or click may do to the listing: nothing, or one more entry.
Grow(d) == {d} \cup (IF Len(d) < MaxItems THEN {Append(d, t) : t \in Texts} ELSE {})
Grow2(d) == UNION {Grow(x) : x \in Grow(d)}
AllDoms == UNION {[1..n -> Texts] : n \in 0..MaxItems}

\* oldest_date_in_items
RECURSIVE MinOf(_)
MinOf(S) == IF Cardinality(S) = 1 THEN CHOOSE x \in S : TRUE
            ELSE LET x == CHOOSE y \in S : TRUE IN Min2(x, MinOf(S \ {x}))
oldest_date_in_items(items) ==
  LET ds == {_parse_human_date_to_dateobj(items[i][2]) : i \in 1..Len(items)} \ {NoDate}
  IN IF ds = {} THEN NoDate ELSE MinOf(ds)

need_more_gt(od, from) == (od = NoDate) \/ (od > from)
\* need_more = (od is None) or (od >= dfrom)
need_more(od, from) == (od = NoDate) \/ (od >= from)

\* filtered: the entries kept by the first range check, in listing order
RECURSIVE FilterItems(_, _, _)
FilterItems(items, from, to) ==
  IF items = <<>> THEN <<>>
  ELSE LET it == Head(items)
           d == _parse_human_date_to_dateobj(it[2])
           rest == FilterItems(Tail(items), from, to)
       IN IF d = NoDate THEN <<it>> \o rest
          ELSE IF _in_range_day(d, from, to) THEN <<it>> \o rest
          ELSE rest

_sort_key_undatedFirst(item) ==
  LET d == _parse_human_date_to_dateobj(item[2]) IN IF d = NoDate THEN ShortYearDate ELSE d
\* _sort_key: d or date.max
_sort_key(item) ==
  LET d == _parse_human_date_to_dateobj(item[2]) IN IF d = NoDate THEN date_max ELSE d

\* list.sort(key=_sort_key): stable, ascending by key
RECURSIVE InsertByKey(_, _)
InsertByKey(s, x) ==
  IF s = <<>> THEN <<x>>
  ELSE IF _sort_key(Head(s)) <= _sort_key(x) THEN <<Head(s)>> \o InsertByKey(Tail(s), x)
  ELSE <<x>> \o s
RECURSIVE SortByKey(_)
SortByKey(s) == IF s = <<>> THEN <<>> ELSE InsertByKey(SortByKey(SubSeq(s, 1, Len(s) - 1)), s[Len(s)])

NoResult == [kind |-> "none", estado |-> "", descargadas |-> 0, errores |-> <<>>]
Summary(estado, n, errs) == [kind |-> "summary", estado |-> estado, descargadas |-> n, errores |-> errs]
WrappedError == [kind |-> "error", estado |-> "Error al descargar facturas", descargadas |-> 0, errores |-> <<>>]


\* ----------------------------------------------------------------- state
\* entrada_tag / usuario_tag = None
NoTag == ""

inputVars == <<dfrom, dto, download_all, date_from, date_to, has_cookies>>
fnVars == <<arg, out>>
stepVars == <<ok_clicked, pos, tried>>
saveVars == <<entrada_tag, usuario_tag, files>>
apiVars == <<req>>
batchVars == <<runner, df, sheet, row, respuesta, procesadas, saltadas, log_entries, calls>>
revealVars == <<max_rounds, rounds, last_count, n_items, ret>>
itemVars == <<filtered, idx, d_real, download, descargadas, errores, skipped, persisted, how, trail>>

FromClickCap == InitialRounds + 1

\* A date_from / date_to argument: absent (None or ""), a string _parse_input_date
\* rejects, or a string it accepts, with the day it stands for.
BoundArgs == {<<"absent", NoDate>>, <<"malformed", NoDate>>} \cup {<<"wellformed", d>> : d \in Dates}
BadBound == NoDate - 1
ParseBound_lenient(s) == IF s[1] = "wellformed" THEN s[2] ELSE NoDate
\* _parse_input_date(s) if s else None; BadBound stands for the raised ValueError
ParseBound(s) ==
  IF s[1] = "absent" THEN NoDate
  ELSE IF s[1] = "wellformed" THEN s[2]
  ELSE BadBound
RawValueError == [kind |-> "ValueError", estado |-> "Fecha invalida", descargadas |-> 0, errores |-> <<>>]

\* The values of the variables that belong to the other specifications.
NoCal == [kind |-> "none", y |-> 0, m |-> 0, d |-> 0]
NoArg == [s |-> <<>>, end |-> FALSE, of |-> NoCal]
FnIdle == arg = NoArg /\ out = NoCal
StepIdle == ok_clicked = FALSE /\ pos = 0 /\ tried = <<>>
SaveIdle == entrada_tag = NoTag /\ usuario_tag = NoTag /\ files = <<>>
ApiIdle == req = <<>>
BatchIdle ==
  /\ runner = "none" /\ df = <<>> /\ sheet = <<>> /\ row = 0 /\ respuesta = "none"
  /\ procesadas = 0 /\ saltadas = 0 /\ log_entries = <<>> /\ calls = <<>>

Init ==
  /\ pc = "parse"
  /\ date_from \in BoundArgs
  /\ date_to \in BoundArgs
  /\ dfrom = NoDate
  /\ dto = NoDate
  /\ FnIdle /\ BatchIdle /\ StepIdle /\ SaveIdle /\ ApiIdle
  /\ download_all \in BOOLEAN
  /\ has_cookies \in BOOLEAN
  /\ browser = "none"
  /\ dom = <<>>
  /\ all_items = <<>>
  /\ max_rounds = 0 /\ rounds = 0 /\ last_count = 0 /\ n_items = 0 /\ ret = "none"
  /\ filtered = <<>> /\ idx = 0 /\ d_real = NoDate /\ download = FALSE
  /\ descargadas = 0 /\ errores = <<>>
  /\ result = NoResult
  /\ fromClicks = 0 /\ skipped = 0 /\ persisted = 0 /\ how = ""
  /\ trail = <<>> /\ state_writes = <<>>

\* except Exception as e: raise Exception("Error al descargar facturas: ...")
\* Nothing is closed on this path.
RaiseWrapped == pc' = "fatal" /\ result' = WrappedError

\* The first two statements of descargar_facturas, ahead of its try block: each
\* present argument goes through _parse_input_date, and the ValueError of a malformed
\* one leaves the function as it is.
ParseInputs ==
  /\ pc = "parse"
  /\ IF ParseBound(date_from) = BadBound \/ ParseBound(date_to) = BadBound
     THEN /\ pc' = "invalid"
          /\ result' = RawValueError
          /\ UNCHANGED <<dfrom, dto>>
     ELSE /\ dfrom' = ParseBound(date_from)
          /\ dto' = ParseBound(date_to)
          /\ pc' = "start"
          /\ result' = result
  /\ UNCHANGED <<date_from, date_to, download_all, has_cookies, fnVars, stepVars, saveVars, apiVars, batchVars, browser, dom, all_items,
                 revealVars, itemVars, fromClicks, state_writes>>

LoginWrite_always(valid) == <<"login">>
\* if not has_cookies: the manual login, then context.storage_state(path=...)
LoginWrite(valid) == IF valid THEN <<>> ELSE <<"login">>

\* Launch of the browser, context, page and the login phase (sections 0 and 1):
\* without a stored session that still opens the dashboard the user logs in and
\* the session state is written.
StartSession ==
  /\ pc = "start"
  /\ \E ok \in BOOLEAN :
       IF ok THEN /\ browser' = "open"
                  /\ state_writes' = LoginWrite(has_cookies)
                  /\ pc' = "navigate"
                  /\ result' = result
       ELSE /\ RaiseWrapped
            /\ browser' \in {"none", "open"}
            /\ state_writes' = state_writes
  /\ UNCHANGED <<inputVars, fnVars, stepVars, saveVars, apiVars, batchVars, dom, all_items, revealVars, itemVars, fromClicks>>

\* "Billing & Invoices", "Manage subscription", the portal page (sections 2 and 3).
OpenPortal ==
  /\ pc = "navigate"
  /\ \E ok \in BOOLEAN :
       IF ok THEN /\ pc' = "locate"
                  /\ dom' \in AllDoms
                  /\ result' = result
       ELSE /\ RaiseWrapped
            /\ dom' = dom
  /\ UNCHANGED <<inputVars, state_writes, fnVars, stepVars, saveVars, apiVars, batchVars, browser, all_items, revealVars, itemVars, fromClicks>>

AfterLocate_strict(billing_frame, focused, visible) ==
  IF billing_frame /\ focused /\ visible THEN "proceed" ELSE "raise"
\* target = billing_frame if billing_frame else new_page; the values returned by
\* _focus_invoice_tab_if_needed and _wait_for_invoice_list are not looked at
AfterLocate(billing_frame, focused, visible) == "proceed"

\* Section 4 up to the call of the initial reveal pass: frame, tab and wait are
\* advisory; all_items is collected, then the loop reads its own first count.
LocateListing ==
  /\ pc = "locate"
  /\ \E billing_frame \in BOOLEAN, focused \in BOOLEAN, visible \in BOOLEAN :
       IF AfterLocate(billing_frame, focused, visible) = "proceed"
       THEN /\ \E nd \in Grow(dom), ok1 \in BOOLEAN, ok2 \in BOOLEAN :
                 /\ dom' = nd
                 /\ all_items' = _collect_invoice_items(nd, ok1)
                 /\ last_count' = Len(_collect_invoice_items(nd, ok2))
            /\ max_rounds' = InitialRounds
            /\ rounds' = 0 /\ n_items' = 0
            /\ ret' = "collect_initial"
            /\ pc' = "reveal"
            /\ result' = result
       ELSE /\ RaiseWrapped
            /\ UNCHANGED <<dom, all_items, revealVars>>
  /\ UNCHANGED <<inputVars, state_writes, fnVars, stepVars, saveVars, apiVars, batchVars, browser, itemVars, fromClicks>>

Grew_ge(n, last) == n >= last
\* len(items) > last_count (and its negation, len(items) <= last_count)
Grew(n, last) == n > last

RoundsLeft_le(r, m) == r <= m
\* while rounds < max_rounds
RoundsLeft(r, m) == r < m

\* The while loop of _expand_all_invoices_all_languages, one pass: the loop test,
\* then a round (scroll, one click attempt, recount; break on no growth, otherwise
\* the new count is recorded), or the end of the loop when the test fails.
RevealRound ==
  /\ pc = "reveal"
  /\ IF RoundsLeft(rounds, max_rounds)
     THEN /\ rounds' = rounds + 1
          /\ \E clicked \in BOOLEAN, d1 \in Grow(dom), ok1 \in BOOLEAN :
               LET n1 == Len(_collect_invoice_items(d1, ok1)) IN
               IF ~clicked
               THEN /\ dom' = d1
                    /\ n_items' = n1
                    /\ IF Grew(n1, last_count)
                       THEN last_count' = n1 /\ pc' = "reveal"
                       ELSE last_count' = last_count /\ pc' = "reveal_end"
               ELSE \E d2 \in Grow(d1), ok2 \in BOOLEAN :
                      LET n2 == Len(_collect_invoice_items(d2, ok2)) IN
                      /\ dom' = d2
                      /\ n_items' = n2
                      /\ IF ~Grew(n2, last_count)
                         THEN last_count' = last_count /\ pc' = "reveal_end"
                         ELSE last_count' = n2 /\ pc' = "reveal"
     ELSE /\ pc' = "reveal_end"
          /\ UNCHANGED <<dom, rounds, last_count, n_items>>
  /\ UNCHANGED <<inputVars, state_writes, fnVars, stepVars, saveVars, apiVars, batchVars, browser, all_items, max_rounds, ret, itemVars, result, fromClicks>>

\* The function returns to its caller; its locals are gone.
RevealReturn ==
  /\ pc = "reveal_end"
  /\ pc' = ret
  /\ max_rounds' = 0 /\ rounds' = 0 /\ last_count' = 0 /\ n_items' = 0 /\ ret' = "none"
  /\ UNCHANGED <<inputVars, state_writes, fnVars, stepVars, saveVars, apiVars, batchVars, browser, dom, all_items, itemVars, result, fromClicks>>

\* all_items = _collect_invoice_items(target) after the initial pass, then "if dfrom"
CollectAfterInitial ==
  /\ pc = "collect_initial"
  /\ \E ok \in BOOLEAN : all_items' = _collect_invoice_items(dom, ok)
  /\ pc' = IF dfrom # NoDate THEN "from_loop" ELSE "mode_all"
  /\ UNCHANGED <<inputVars, state_writes, fnVars, stepVars, saveVars, apiVars, batchVars, browser, dom, revealVars, itemVars, result, fromClicks>>

\* One pass of the "while True" of the from-driven expansion. A click attempt that
\* finds nothing ends the loop at once, with no scroll and no collect; the page may
\* have loaded entries of its own accord while the attempt timed out.
FromExpand ==
  /\ pc = "from_loop"
  /\ LET od == oldest_date_in_items(all_items) IN
     IF ~need_more(od, dfrom)
     THEN /\ pc' = "mode_all" /\ fromClicks' = 0
          /\ UNCHANGED <<dom, all_items>>
     ELSE \E clicked \in BOOLEAN :
            IF ~clicked
            THEN /\ pc' = "mode_all" /\ fromClicks' = 0
                 /\ dom' \in Grow(dom)
                 /\ all_items' = all_items
            ELSE \E nd \in Grow2(dom), ok \in BOOLEAN :
                   /\ dom' = nd
                   /\ all_items' = _collect_invoice_items(nd, ok)
                   /\ fromClicks' = Min2(fromClicks + 1, FromClickCap)
                   /\ pc' = "from_loop"
  /\ UNCHANGED <<inputVars, state_writes, fnVars, stepVars, saveVars, apiVars, batchVars, browser, revealVars, itemVars, result>>

FullReveal_anyTo(all, from, to) == all /\ from = NoDate
\* if download_all and not dfrom and not dto
FullReveal(all, from, to) == all /\ from = NoDate /\ to = NoDate

\* Mode b: the full reveal with the larger budget, when the test above holds.
ModeAll ==
  /\ pc = "mode_all"
  /\ IF FullReveal(download_all, dfrom, dto)
     THEN /\ \E ok \in BOOLEAN : last_count' = Len(_collect_invoice_items(dom, ok))
          /\ max_rounds' = AllRounds
          /\ rounds' = 0 /\ n_items' = 0
          /\ ret' = "collect_all"
          /\ pc' = "reveal"
     ELSE /\ pc' = "filter"
          /\ UNCHANGED revealVars
  /\ UNCHANGED <<inputVars, state_writes, fnVars, stepVars, saveVars, apiVars, batchVars, browser, dom, all_items, itemVars, result, fromClicks>>

CollectAfterAll ==
  /\ pc = "collect_all"
  /\ \E ok \in BOOLEAN : all_items' = _collect_invoice_items(dom, ok)
  /\ pc' = "filter"
  /\ UNCHANGED <<inputVars, state_writes, fnVars, stepVars, saveVars, apiVars, batchVars, browser, dom, revealVars, itemVars, result, fromClicks>>


\* Section 5 and the set-up of the item loop: first range check on the listing
\* text, stable sort by _sort_key; an empty queue returns the "ok" summary.
BuildQueue ==
  /\ pc = "filter"
  /\ LET f == SortByKey(FilterItems(all_items, dfrom, dto)) IN
     /\ filtered' = f
     /\ IF f = <<>>
        THEN /\ idx' = idx
             /\ state_writes' = Append(state_writes, "end")
             /\ \E closeOk \in BOOLEAN :
                  IF closeOk THEN /\ browser' = "closed"
                                  /\ result' = Summary("ok", 0, <<>>)
                                  /\ pc' = "done"
                  ELSE RaiseWrapped /\ browser' = browser
        ELSE /\ idx' = 1
             /\ pc' = "open"
             /\ UNCHANGED <<browser, result, state_writes>>
  /\ descargadas' = 0
  /\ errores' = <<>>
  /\ UNCHANGED <<inputVars, fnVars, stepVars, saveVars, apiVars, batchVars, dom, all_items, revealVars, d_real, download,
                 fromClicks, skipped, persisted, how, trail>>

\* new_page.goto(href, ...): not inside any try of the loop body. The page leaves
\* the listing, whose document is not read again.
OpenItem ==
  /\ pc = "open"
  /\ \E navOk \in BOOLEAN :
       IF navOk THEN pc' = "extract" /\ result' = result /\ dom' = <<>>
       ELSE RaiseWrapped /\ dom' = dom
  /\ trail' = <<"OPEN">>
  /\ UNCHANGED <<inputVars, state_writes, fnVars, stepVars, saveVars, apiVars, batchVars, browser, all_items, revealVars,
                 filtered, idx, d_real, download, descargadas, errores, skipped, persisted, how,
                 fromClicks>>

\* fecha_texto = f"{d.year}_{mm}_{dd}": the year is written without padding
YearHasFourDigits(d) == d # ShortYearDate

SecondCheck_fromOnly(d, from, to) == _in_range_day(d, from, NoDate)
\* if not _in_range_day(d_real, dfrom, dto)
SecondCheck(d, from, to) == _in_range_day(d, from, to)

\* _extract_invoice_date, the strptime of its result, and the second range check.
\* The date read from the body, or today's date when the body has none.
ExtractDate ==
  /\ pc = "extract"
  /\ \E body \in Texts, today \in Today :
       LET p == _parse_human_date_to_dateobj(body)
           d == IF p = NoDate THEN today ELSE p
       IN IF ~YearHasFourDigits(d)
          THEN RaiseWrapped /\ UNCHANGED <<d_real, download>>
          ELSE /\ d_real' = d
               /\ download' = FALSE
               /\ pc' = IF SecondCheck(d, dfrom, dto) THEN "download" ELSE "skip"
               /\ result' = result
  /\ trail' = Append(trail, "EXTRACT_DATE")
  /\ UNCHANGED <<inputVars, state_writes, fnVars, stepVars, saveVars, apiVars, batchVars, browser, dom, all_items, revealVars, filtered, idx,
                 descargadas, errores, fromClicks, skipped, persisted, how>>

Returned_always(t, more) == Append(t, "RETURN_TO_LISTING")
\* if idx < len(filtered): new_page.goto(list_url, ...); nothing for the last item
Returned(t, more) == IF more THEN Append(t, "RETURN_TO_LISTING") ELSE t

\* The end of one pass of the item loop: back to the listing when items remain.
NextItem(navOk) ==
  IF idx < Len(filtered)
  THEN IF navOk THEN idx' = idx + 1 /\ pc' = "open" /\ result' = result
       ELSE RaiseWrapped /\ idx' = idx
  ELSE idx' = idx + 1 /\ pc' = "finish" /\ result' = result

SkipCounts_err(n, errs, href) == <<n, Append(errs, [href |-> href, error |-> "fuera de rango"])>>
\* the skip branch touches neither descargadas nor errores
SkipCounts(n, errs, href) == <<n, errs>>

\* Out of range by the authoritative date: no download, back to the listing, continue.
SkipItem ==
  /\ pc = "skip"
  /\ LET c == SkipCounts(descargadas, errores, filtered[idx][1]) IN
     descargadas' = c[1] /\ errores' = c[2]
  /\ skipped' = skipped + 1
  /\ \E navOk \in BOOLEAN : NextItem(navOk)
  /\ trail' = Returned(Append(trail, "SKIP"), idx < Len(filtered))
  /\ d_real' = NoDate
  /\ UNCHANGED <<inputVars, state_writes, fnVars, stepVars, saveVars, apiVars, batchVars, browser, dom, all_items, revealVars, filtered, download,
                 fromClicks, persisted, how>>

\* The download strategies (test id, label texts, generic selectors): download is
\* set by the first one that yields click and download signal, else it stays None.
TryDownload ==
  /\ pc = "download"
  /\ \E got \in BOOLEAN : download' = got
  /\ trail' = Append(trail, "DOWNLOAD")
  /\ pc' = "save"
  /\ UNCHANGED <<inputVars, state_writes, fnVars, stepVars, saveVars, apiVars, batchVars, browser, dom, all_items, revealVars, filtered, idx, d_real,
                 descargadas, errores, result, fromClicks, skipped, persisted, how>>

ErrEntry(href, msg) == [href |-> href, error |-> msg]

SaveOutcome_moveIsError(n, errs, href, dl, saveOk, moveOk) ==
  IF ~dl THEN <<n, Append(errs, ErrEntry(href, "No se pudo iniciar la descarga"))>>
  ELSE IF saveOk THEN <<n + 1, errs>>
  ELSE <<n, Append(errs, ErrEntry(href, "save_as"))>>
SaveOutcome_noErrorOnStart(n, errs, href, dl, saveOk, moveOk) ==
  IF ~dl THEN <<n, errs>>
  ELSE IF saveOk \/ moveOk THEN <<n + 1, errs>>
  ELSE <<n + 1, Append(errs, ErrEntry(href, "save_as"))>>
\* if not download: one error entry; else save_as, on failure the relocation of the
\* temporary file, on failure of that an error entry; descargadas += 1 in the else
\* branch whatever the save did.
SaveOutcome(n, errs, href, dl, saveOk, moveOk) ==
  IF ~dl THEN <<n, Append(errs, ErrEntry(href, "No se pudo iniciar la descarga"))>>
  ELSE IF saveOk \/ moveOk THEN <<n + 1, errs>>
  ELSE <<n + 1, Append(errs, ErrEntry(href, "save_as"))>>

SaveDownload ==
  /\ pc = "save"
  /\ \E saveOk \in BOOLEAN, moveOk \in BOOLEAN :
       LET c == SaveOutcome(descargadas, errores, filtered[idx][1], download, saveOk, moveOk) IN
       /\ descargadas' = c[1]
       /\ errores' = c[2]
       /\ persisted' = IF download /\ (saveOk \/ moveOk) THEN persisted + 1 ELSE persisted
       /\ how' = IF ~download THEN "nodl" ELSE IF saveOk THEN "save_as"
                 ELSE IF moveOk THEN "moved" ELSE "failed"
  /\ pc' = "return"
  /\ UNCHANGED <<inputVars, state_writes, fnVars, stepVars, saveVars, apiVars, batchVars, browser, dom, all_items, revealVars, filtered, idx, d_real,
                 download, result, fromClicks, skipped, trail>>

\* if idx < len(filtered): new_page.goto(list_url, ...)
ReturnToListing ==
  /\ pc = "return"
  /\ \E navOk \in BOOLEAN : NextItem(navOk)
  /\ trail' = Returned(trail, idx < Len(filtered))
  /\ d_real' = NoDate
  /\ download' = FALSE
  /\ how' = ""
  /\ UNCHANGED <<inputVars, state_writes, fnVars, stepVars, saveVars, apiVars, batchVars, browser, dom, all_items, revealVars, filtered, descargadas,
                 errores, fromClicks, skipped, persisted>>

\* After the loop: session state, close, the "exitoso" summary.
Finish ==
  /\ pc = "finish"
  /\ state_writes' = Append(state_writes, "end")
  /\ \E closeOk \in BOOLEAN :
       IF closeOk THEN /\ browser' = "closed"
                       /\ result' = Summary("exitoso", descargadas, errores)
                       /\ pc' = "done"
       ELSE RaiseWrapped /\ browser' = browser
  /\ UNCHANGED <<inputVars, fnVars, stepVars, saveVars, apiVars, batchVars, dom, all_items, revealVars, itemVars, fromClicks>>

Next ==
  \/ ParseInputs
  \/ StartSession \/ OpenPortal \/ LocateListing
  \/ RevealRound \/ RevealReturn
  \/ CollectAfterInitial \/ FromExpand \/ ModeAll \/ CollectAfterAll
  \/ BuildQueue \/ OpenItem \/ ExtractDate \/ SkipItem
  \/ TryDownload \/ SaveDownload \/ ReturnToListing \/ Finish

Spec == Init /\ [][Next]_vars

\* The program is sequential and every wait in it is bounded: it always takes its
\* next step.
FairSpec == Spec /\ WF_vars(Next)

\* The reveal loop on its own: any listing, any round budget.
InitReveal ==
  /\ pc = "reveal"
  /\ dfrom = NoDate /\ dto = NoDate /\ download_all = FALSE /\ has_cookies = FALSE
  /\ date_from = <<"absent", NoDate>> /\ date_to = <<"absent", NoDate>>
  /\ FnIdle /\ BatchIdle /\ StepIdle /\ SaveIdle /\ ApiIdle
  /\ browser = "open"
  /\ dom \in AllDoms
  /\ all_items = <<>>
  /\ max_rounds \in 0..MaxRoundsArg
  /\ rounds = 0 /\ n_items = 0
  /\ \E ok \in BOOLEAN : last_count = Len(_collect_invoice_items(dom, ok))
  /\ ret = "returned"
  /\ filtered = <<>> /\ idx = 0 /\ d_real = NoDate /\ download = FALSE
  /\ descargadas = 0 /\ errores = <<>>
  /\ result = NoResult
  /\ fromClicks = 0 /\ skipped = 0 /\ persisted = 0 /\ how = ""
  /\ trail = <<>> /\ state_writes = <<>>

NextReveal == RevealRound \/ RevealReturn

SpecReveal == InitReveal /\ [][NextReveal]_vars

\* ============================================ the date helpers on their own
\* Here a string is a sequence of tokens: a run of digits (its value v and its
\* number of digits n), a run of letters (w, in lower case; cap tells that the
\* string has it with capitals), a run of white space, or one of , - /
\* A calendar date is a record [kind, y, m, d].
Tok(k, v, n, w, cap) == [k |-> k, v |-> v, n |-> n, w |-> w, cap |-> cap]
Num(v, n) == Tok("num", v, n, "", FALSE)
Word(w) == Tok("word", 0, 0, w, FALSE)
CapWord(w) == Tok("word", 0, 0, w, TRUE)
Sp == Tok("sp", 0, 0, "", FALSE)
Comma == Tok("comma", 0, 0, "", FALSE)
Dash == Tok("dash", 0, 0, "", FALSE)
Slash == Tok("slash", 0, 0, "", FALSE)

\* str.strip()
RECURSIVE LStrip(_)
LStrip(t) == IF t # <<>> /\ Head(t).k = "sp" THEN LStrip(Tail(t)) ELSE t
RECURSIVE RStrip(_)
RStrip(t) == IF t # <<>> /\ t[Len(t)].k = "sp" THEN RStrip(SubSeq(t, 1, Len(t) - 1)) ELSE t
Strip(t) == RStrip(LStrip(t))

\* datetime.date: the proleptic Gregorian calendar, years 1 to 9999
IsLeap(y) == (y % 4 = 0 /\ y % 100 # 0) \/ y % 400 = 0
DaysIn(y, m) ==
  IF m = 2 THEN (IF IsLeap(y) THEN 29 ELSE 28)
  ELSE IF m \in {4, 6, 9, 11} THEN 30 ELSE 31
ValidYMD(y, m, d) == y \in 1..9999 /\ m \in 1..12 /\ d \in 1..DaysIn(y, m)
Cal(y, m, d) == [kind |-> "date", y |-> y, m |-> m, d |-> d]
ValueErrorOut == [kind |-> "ValueError", y |-> 0, m |-> 0, d |-> 0]

DayBefore_same(c) == c
\* c - timedelta(days=1)
DayBefore(c) ==
  IF c.d > 1 THEN Cal(c.y, c.m, c.d - 1)
  ELSE IF c.m > 1 THEN Cal(c.y, c.m - 1, DaysIn(c.y, c.m - 1))
  ELSE Cal(c.y - 1, 12, 31)

\* re.fullmatch(r"\d{4}-\d{2}-\d{2}", s) and re.fullmatch(r"\d{4}-\d{2}", s)
IsNum(t, n) == t.k = "num" /\ t.n = n
MatchYMD(t) ==
  Len(t) = 5 /\ IsNum(t[1], 4) /\ t[2].k = "dash" /\ IsNum(t[3], 2) /\ t[4].k = "dash" /\ IsNum(t[5], 2)
MatchYM(t) == Len(t) = 3 /\ IsNum(t[1], 4) /\ t[2].k = "dash" /\ IsNum(t[3], 2)

\* _parse_input_date(s, end): None for an empty s; a full date as it is; a month as
\* its first day, or with end as its last day (December directly, any other month as
\* the day before the first of the next month); for anything else, and for whatever
\* fails on the way (the bare except), ValueError.
_parse_input_date(s, end) ==
  IF s = <<>> THEN NoCal
  ELSE LET t == Strip(s) IN
    IF MatchYMD(t)
    THEN (IF ValidYMD(t[1].v, t[3].v, t[5].v) THEN Cal(t[1].v, t[3].v, t[5].v) ELSE ValueErrorOut)
    ELSE IF MatchYM(t)
    THEN (IF ~ValidYMD(t[1].v, t[3].v, 1) THEN ValueErrorOut
          ELSE IF end
          THEN (IF t[3].v = 12 THEN Cal(t[1].v, 12, 31)
                ELSE DayBefore(Cal(t[1].v, t[3].v + 1, 1)))
          ELSE Cal(t[1].v, t[3].v, 1))
    ELSE ValueErrorOut

\* Everything of descargar_facturas at rest.
runVars == <<dfrom, dto, download_all, date_from, date_to, has_cookies, browser, dom, all_items,
             revealVars, itemVars, result, fromClicks, state_writes>>
RunIdle ==
  /\ dfrom = NoDate /\ dto = NoDate /\ download_all = FALSE /\ has_cookies = FALSE
  /\ date_from = <<"absent", NoDate>> /\ date_to = <<"absent", NoDate>>
  /\ browser = "none" /\ dom = <<>> /\ all_items = <<>>
  /\ max_rounds = 0 /\ rounds = 0 /\ last_count = 0 /\ n_items = 0 /\ ret = "none"
  /\ filtered = <<>> /\ idx = 0 /\ d_real = NoDate /\ download = FALSE
  /\ descargadas = 0 /\ errores = <<>>
  /\ result = NoResult
  /\ fromClicks = 0 /\ skipped = 0 /\ persisted = 0 /\ how = ""
  /\ trail = <<>> /\ state_writes = <<>>

\* The strings given to _parse_input_date: months and days of a few years (year
\* 0000, months 00 and 13 and days past the end of the month among them), the same
\* with white space around, a month written with one digit, white space alone and
\* the empty string.
BoundYears == {0, 1, 1900, 2000, 2023, 2024, 9999}
BoundMonths == 0..13
BoundDays == {0, 1, 28, 29, 30, 31}
YMText(y, m) == <<Num(y, 4), Dash, Num(m, 2)>>
YMDText(y, m, d) == <<Num(y, 4), Dash, Num(m, 2), Dash, Num(d, 2)>>
BoundTexts ==
  {YMText(y, m) : y \in BoundYears, m \in BoundMonths}
  \cup {<<Sp>> \o YMText(y, m) \o <<Sp>> : y \in BoundYears, m \in {2, 12}}
  \cup {YMDText(y, m, d) : y \in BoundYears, m \in {2, 4, 12}, d \in BoundDays}
  \cup {<<Num(2024, 4), Dash, Num(2, 1)>>, <<Num(2024, 4), Slash, Num(2, 2)>>, <<Sp>>, <<>>}

InitBound ==
  /\ pc = "call"
  /\ \E t \in BoundTexts, b \in BOOLEAN : arg = [s |-> t, end |-> b, of |-> NoCal]
  /\ out = NoCal
  /\ RunIdle /\ BatchIdle /\ StepIdle /\ SaveIdle /\ ApiIdle

CallParseInputDate ==
  /\ pc = "call"
  /\ out' = _parse_input_date(arg.s, arg.end)
  /\ pc' = "returned"
  /\ UNCHANGED <<arg, runVars, stepVars, saveVars, apiVars, batchVars>>

NextBound == CallParseInputDate

SpecBound == InitBound /\ [][NextBound]_vars

\* MONTHS: the month number of a key of the lexicon, 0 for any other word
MonthNames(m) ==
  CASE m = 1 -> {"ene", "enero", "jan", "january"}
    [] m = 2 -> {"feb", "febrero", "february"}
    [] m = 3 -> {"mar", "marzo", "march"}
    [] m = 4 -> {"abr", "abril", "apr", "april"}
    [] m = 5 -> {"may", "mayo"}
    [] m = 6 -> {"jun", "junio", "june"}
    [] m = 7 -> {"jul", "julio", "july"}
    [] m = 8 -> {"ago", "agosto", "aug", "august"}
    [] m = 9 -> {"sep", "sept", "septi", "septiembre", "set", "setiembre", "september"}
    [] m = 10 -> {"oct", "octubre", "october"}
    [] m = 11 -> {"nov", "noviembre", "november"}
    [] m = 12 -> {"dic", "diciembre", "dec", "december"}
MONTHS(w) == IF \E m \in 1..12 : w \in MonthNames(m)
             THEN CHOOSE m \in 1..12 : w \in MonthNames(m) ELSE 0

_norm_txt_noLower(t) == Strip(t)
\* _norm_txt: strip and lower case (a token of the model carries no accent)
_norm_txt(t) == LET u == Strip(t) IN [i \in 1..Len(u) |-> [u[i] EXCEPT !.cap = FALSE]]

\* What the groups of the three patterns capture: (\d{1,2}) found by re.search at the
\* head of a pattern takes the last two digits of a run of digits, (\d{4}) at its
\* end the first four, a word between white space the whole run of letters.
RECURSIVE Pow10(_)
Pow10(n) == IF n = 0 THEN 1 ELSE 10 * Pow10(n - 1)
LastTwo(t) == IF t.n >= 2 THEN t.v % 100 ELSE t.v
FirstFour(t) == t.v \div Pow10(t.n - 4)
IsWord(t) == t.k = "word" /\ ~t.cap
IsDe(t) == IsWord(t) /\ t.w = "de"
IsYear(t) == t.k = "num" /\ t.n >= 4
FirstIdx(S) == IF S = {} THEN 0 ELSE CHOOSE i \in S : \A j \in S : i <= j

\* (\d{1,2})\s+de\s+([a-zñ]+)\s+de\s+(\d{4}) matching from token i
Pat1At(n, i) ==
  /\ i + 8 <= Len(n)
  /\ n[i].k = "num" /\ n[i + 1].k = "sp" /\ IsDe(n[i + 2]) /\ n[i + 3].k = "sp"
  /\ IsWord(n[i + 4]) /\ n[i + 5].k = "sp" /\ IsDe(n[i + 6]) /\ n[i + 7].k = "sp"
  /\ IsYear(n[i + 8])
\* (\d{1,2})\s+([a-zñ]+)\s+(\d{4})
Pat2At(n, i) ==
  /\ i + 4 <= Len(n)
  /\ n[i].k = "num" /\ n[i + 1].k = "sp" /\ IsWord(n[i + 2]) /\ n[i + 3].k = "sp"
  /\ IsYear(n[i + 4])
\* ([a-z]+)\s+(\d{1,2}),\s*(\d{4}); YearAfterComma is where the year stands
YearAfterComma(n, i) == IF i + 4 <= Len(n) /\ n[i + 4].k = "sp" THEN i + 5 ELSE i + 4
Pat3At(n, i) ==
  /\ i + 4 <= Len(n)
  /\ IsWord(n[i]) /\ n[i + 1].k = "sp"
  /\ n[i + 2].k = "num" /\ n[i + 2].n \in {1, 2} /\ n[i + 3].k = "comma"
  /\ YearAfterComma(n, i) <= Len(n) /\ IsYear(n[YearAfterComma(n, i)])

\* try: return date(y, mon, d) except: return None
DateOrNone(y, m, d) == IF ValidYMD(y, m, d) THEN Cal(y, m, d) ELSE NoCal

\* datetime.strptime(text.strip(), fmt).date() for the four formats: %Y is four
\* digits, %m and %d one or two; a text that does not match, or does not name a
\* day of the calendar, raises and the next format is tried.
IsShort(t) == t.k = "num" /\ t.n \in {1, 2}
Sep3(t, c) == Len(t) = 5 /\ t[2].k = c /\ t[4].k = c
StrpYDM(t, c) ==
  IF Sep3(t, c) /\ IsNum(t[1], 4) /\ IsShort(t[3]) /\ IsShort(t[5])
  THEN DateOrNone(t[1].v, t[5].v, t[3].v) ELSE NoCal
StrpYMD(t, c) ==
  IF Sep3(t, c) /\ IsNum(t[1], 4) /\ IsShort(t[3]) /\ IsShort(t[5])
  THEN DateOrNone(t[1].v, t[3].v, t[5].v) ELSE NoCal
StrpDMY(t, c) ==
  IF Sep3(t, c) /\ IsShort(t[1]) /\ IsShort(t[3]) /\ IsNum(t[5], 4)
  THEN DateOrNone(t[5].v, t[3].v, t[1].v) ELSE NoCal
NumericFormats(t) ==
  IF StrpYMD(t, "dash") # NoCal THEN StrpYMD(t, "dash")
  ELSE IF StrpDMY(t, "slash") # NoCal THEN StrpDMY(t, "slash")
  ELSE IF StrpYMD(t, "slash") # NoCal THEN StrpYMD(t, "slash")
  ELSE StrpDMY(t, "dash")

\* _parse_human_date_to_dateobj on a string of tokens: the three patterns in turn on
\* the normalised text (a match whose word is no key of MONTHS falls through to the
\* next pattern, a match that names no day of the calendar returns None), then the
\* numeric formats on the stripped text as a whole.
ParseHumanDate(text) ==
  LET n == _norm_txt(text)
      i1 == FirstIdx({i \in 1..Len(n) : Pat1At(n, i)})
      i2 == FirstIdx({i \in 1..Len(n) : Pat2At(n, i)})
      i3 == FirstIdx({i \in 1..Len(n) : Pat3At(n, i)})
  IN IF i1 # 0 /\ MONTHS(n[i1 + 4].w) # 0
     THEN DateOrNone(FirstFour(n[i1 + 8]), MONTHS(n[i1 + 4].w), LastTwo(n[i1]))
     ELSE IF i2 # 0 /\ MONTHS(n[i2 + 2].w) # 0
     THEN DateOrNone(FirstFour(n[i2 + 4]), MONTHS(n[i2 + 2].w), LastTwo(n[i2]))
     ELSE IF i3 # 0 /\ MONTHS(n[i3].w) # 0
     THEN DateOrNone(FirstFour(n[YearAfterComma(n, i3)]), MONTHS(n[i3].w), n[i3 + 2].v)
     ELSE NumericFormats(Strip(text))

\* The texts given to _parse_human_date_to_dateobj: every day of a few years (a
\* year below 1000 among them, written with four digits) in each of the four forms,
\* with every key of MONTHS for its month, the month in lower case or capitalised,
\* the day with or without a leading zero; and a few texts that are no date.
HumanYears == {999, 2024, 2025}
HumanDates == {c \in {Cal(y, m, d) : y \in HumanYears, m \in 1..12, d \in 1..31} : ValidYMD(c.y, c.m, c.d)}
DayTok(d, pad) == Num(d, IF d >= 10 \/ pad THEN 2 ELSE 1)
MonthTok(w, cap) == IF cap THEN CapWord(w) ELSE Word(w)
DeForm(c, w, pad, cap) ==
  <<DayTok(c.d, pad), Sp, Word("de"), Sp, MonthTok(w, cap), Sp, Word("de"), Sp, Num(c.y, 4)>>
ShortForm(c, w, pad, cap) == <<DayTok(c.d, pad), Sp, MonthTok(w, cap), Sp, Num(c.y, 4)>>
MonthFirstForm(c, w, pad, cap) == <<MonthTok(w, cap), Sp, DayTok(c.d, pad), Comma, Sp, Num(c.y, 4)>>
\* the text of a date in the format %Y-%m-%d
IsoFormat(c) == <<Num(c.y, 4), Dash, Num(c.m, 2), Dash, Num(c.d, 2)>>
FormsOf(c) ==
  {IsoFormat(c)}
  \cup UNION {{DeForm(c, w, pad, cap), ShortForm(c, w, pad, cap), MonthFirstForm(c, w, pad, cap)} :
               w \in MonthNames(c.m), pad \in BOOLEAN, cap \in BOOLEAN}
OtherTexts ==
  { <<>>, <<Sp>>,
    <<Num(5, 1), Sp, Word("foo"), Sp, Num(2025, 4)>>,
    <<Num(31, 2), Sp, Word("de"), Sp, Word("feb"), Sp, Word("de"), Sp, Num(2025, 4)>>,
    <<Num(5, 1), Sp, Word("de"), Sp, Word("foo"), Sp, Word("de"), Sp, Num(2025, 4), Sp,
      Num(6, 1), Sp, Word("oct"), Sp, Num(2025, 4)>>,
    <<Word("factura"), Sp>> \o IsoFormat(Cal(2025, 10, 25)),
    <<Num(25, 2), Slash, Num(10, 2), Slash, Num(2025, 4)>>,
    <<Num(2025, 4), Slash, Num(10, 2), Slash, Num(25, 2)>>,
    <<Num(25, 2), Dash, Num(10, 2), Dash, Num(2025, 4)>>,
    <<Num(2025, 4), Dash, Num(2, 2), Dash, Num(30, 2)>>,
    <<Num(5, 1), Sp, Word("oct"), Sp, Num(999, 3)>> }

InitHuman ==
  /\ pc = "call"
  /\ \/ \E c \in HumanDates : \E t \in FormsOf(c) : arg = [s |-> t, end |-> FALSE, of |-> c]
     \/ \E t \in OtherTexts : arg = [s |-> t, end |-> FALSE, of |-> NoCal]
  /\ out = NoCal
  /\ RunIdle /\ BatchIdle /\ StepIdle /\ SaveIdle /\ ApiIdle

CallParseHumanDate ==
  /\ pc = "call"
  /\ out' = ParseHumanDate(arg.s)
  /\ pc' = "returned"
  /\ UNCHANGED <<arg, runVars, stepVars, saveVars, apiVars, batchVars>>

\* The date that came back is written in the format %Y-%m-%d and parsed again.
ParseAgain ==
  /\ pc = "returned"
  /\ out.kind = "date"
  /\ arg' = [s |-> IsoFormat(out), end |-> FALSE, of |-> out]
  /\ out' = ParseHumanDate(IsoFormat(out))
  /\ pc' = "reparsed"
  /\ UNCHANGED <<runVars, stepVars, saveVars, apiVars, batchVars>>

NextHuman == CallParseHumanDate \/ ParseAgain

SpecHuman == InitHuman /\ [][NextHuman]_vars

\* --------------------------------------------- the date read inside an invoice
\* The body text of an invoice page: a day of the calendar written in one of the
\* recognised forms, alone or with other text of the page before and after it, and
\* bodies with no date in them (the empty body of a page that could not be read
\* among them).
Underscore == Tok("underscore", 0, 0, "", FALSE)
BodyDates == {Cal(2025, 10, 25), Cal(2024, 2, 29), Cal(2025, 3, 5)}
NumericForms(c) ==
  { IsoFormat(c),
    <<Num(c.d, 2), Slash, Num(c.m, 2), Slash, Num(c.y, 4)>>,
    <<Num(c.y, 4), Slash, Num(c.m, 2), Slash, Num(c.d, 2)>>,
    <<Num(c.d, 2), Dash, Num(c.m, 2), Dash, Num(c.y, 4)>> }
Before == {<<>>, <<CapWord("factura"), Sp>>}
After == {<<>>, <<Sp, Word("total")>>}
Bodies(c) == {b \o f \o a : b \in Before, f \in FormsOf(c) \cup NumericForms(c), a \in After}
NoDateBodies == {<<>>, <<CapWord("factura"), Sp, Word("total")>>}
TodayDate == Cal(2026, 11, 1)

fecha_texto_of(d) ==
  <<Num(d.y, IF d.y >= 1000 THEN 4 ELSE IF d.y >= 100 THEN 3 ELSE IF d.y >= 10 THEN 2 ELSE 1),
    Underscore, Num(d.m, 2), Underscore, Num(d.d, 2)>>
\* d = _parse_human_date_to_dateobj(body) or date.today();
\* return f"{d.year}_{str(d.month).zfill(2)}_{str(d.day).zfill(2)}"
_extract_invoice_date(body, today) ==
  LET p == ParseHumanDate(body)
      d == IF p = NoCal THEN today ELSE p
  IN fecha_texto_of(d)

InitExtract ==
  /\ pc = "ex_call"
  /\ \/ \E c \in BodyDates : \E t \in Bodies(c) : arg = [s |-> t, end |-> FALSE, of |-> c]
     \/ \E t \in NoDateBodies : arg = [s |-> t, end |-> FALSE, of |-> NoCal]
  /\ out = NoCal
  /\ RunIdle /\ BatchIdle /\ StepIdle /\ SaveIdle /\ ApiIdle

\* fecha_texto = _extract_invoice_date(invoice_page)
StampDate ==
  /\ pc = "ex_call"
  /\ out' = _extract_invoice_date(arg.s, TodayDate)
  /\ pc' = "ex_stamped"
  /\ UNCHANGED <<arg, runVars, stepVars, saveVars, apiVars, batchVars>>

\* d_real = datetime.strptime(fecha_texto, "%Y_%m_%d").date()
ReadStamp ==
  /\ pc = "ex_stamped"
  /\ out' = IF StrpYMD(out, "underscore") = NoCal THEN ValueErrorOut ELSE StrpYMD(out, "underscore")
  /\ pc' = "ex_dated"
  /\ UNCHANGED <<arg, runVars, stepVars, saveVars, apiVars, batchVars>>

NextExtract == StampDate \/ ReadStamp

SpecExtract == InitExtract /\ [][NextExtract]_vars

\* ================================================== the batch runners
\* ejecutar_desde_excel and ejecutar_desde_sheet: a row is its Estado and Resultado
\* cells. df is what the runner read (the DataFrame, which the Excel runner updates
\* and writes back whole; the rows list, which the Sheets runner only reads), sheet
\* is the row source itself. The core is called with the row's own arguments and
\* ends in one of the ways an invocation of descargar_facturas ends.
MaxRows == 2
estado_disparador == "Ejecutar"
EstadoCells == {"Ejecutar", " EJECUTAR ", "Pendiente", "Ejecutado", "Error", ""}
ResultadoCells == {"", "anterior"}
Rows == [estado : EstadoCells, resultado : ResultadoCells]
AllSheets == UNION {[1..n -> Rows] : n \in 0..MaxRows}
CoreOutcomes == {"summary", "error", "ValueError"}

\* (text or "").strip().lower() on the cell values of the model
CellNorm(c) ==
  CASE c \in {"Ejecutar", " EJECUTAR "} -> "ejecutar"
    [] c = "Pendiente" -> "pendiente"
    [] c = "Ejecutado" -> "ejecutado"
    [] c = "Error" -> "error"
    [] OTHER -> ""
IsTrigger_exact(c) == c = estado_disparador
\* estado != trigger, negated
IsTrigger(c) == CellNorm(c) = CellNorm(estado_disparador)

FinalEstado_keep(resp) == IF resp = "summary" THEN "Ejecutado" ELSE "Pendiente"
\* the Estado written in the try body and in the except handler
FinalEstado(resp) == IF resp = "summary" THEN "Ejecutado" ELSE "Error"
\* the Resultado written with it: data["mensaje"], or str(exc)
FinalResultado(resp) ==
  CASE resp = "summary" -> "mensaje"
    [] resp = "error" -> "Error al descargar facturas"
    [] OTHER -> "Fecha invalida"

WriteRow_resetOthers(i, r) ==
  IF runner = "excel"
  THEN /\ df' = [k \in 1..Len(df) |-> IF k = i THEN r ELSE [df[k] EXCEPT !.resultado = ""]]
       /\ sheet' = df'
  ELSE df' = df /\ sheet' = [sheet EXCEPT ![i] = r]
\* Writing cells of row i: the Excel runner sets them in df and persists df, the
\* Sheets runner updates the worksheet cells.
WriteRow(i, r) ==
  IF runner = "excel"
  THEN df' = [df EXCEPT ![i] = r] /\ sheet' = df'
  ELSE df' = df /\ sheet' = [sheet EXCEPT ![i] = r]

InitBatch ==
  /\ pc = "b_loop"
  /\ runner \in {"excel", "sheet"}
  /\ sheet \in AllSheets
  /\ df = sheet
  /\ row = 1
  /\ respuesta = "none"
  /\ procesadas = 0 /\ saltadas = 0 /\ log_entries = <<>> /\ calls = <<>>
  /\ RunIdle /\ FnIdle /\ StepIdle /\ SaveIdle /\ ApiIdle

\* estado != trigger: saltadas += 1; continue
SkipRow ==
  /\ pc = "b_loop" /\ row <= Len(df)
  /\ ~IsTrigger(df[row].estado)
  /\ saltadas' = saltadas + 1
  /\ row' = row + 1
  /\ UNCHANGED <<pc, runner, df, sheet, respuesta, procesadas, log_entries, calls, runVars, fnVars, stepVars, saveVars, apiVars>>

\* Estado = "Pendiente", written to the row source ahead of the call
ClaimRow ==
  /\ pc = "b_loop" /\ row <= Len(df)
  /\ IsTrigger(df[row].estado)
  /\ WriteRow(row, [(IF runner = "excel" THEN df ELSE sheet)[row] EXCEPT !.estado = "Pendiente"])
  /\ pc' = "b_call"
  /\ UNCHANGED <<runner, row, respuesta, procesadas, saltadas, log_entries, calls, runVars, fnVars, stepVars, saveVars, apiVars>>

\* respuesta = descargar_facturas(periodo_inicio, periodo_fin, ...)
InvokeCore ==
  /\ pc = "b_call"
  /\ respuesta' \in CoreOutcomes
  /\ calls' = Append(calls, row)
  /\ pc' = "b_final"
  /\ UNCHANGED <<runner, df, sheet, row, procesadas, saltadas, log_entries, runVars, fnVars, stepVars, saveVars, apiVars>>

\* The rest of the try body, or the except handler, and the write that follows.
FinalizeRow ==
  /\ pc = "b_final"
  /\ WriteRow(row, [estado |-> FinalEstado(respuesta), resultado |-> FinalResultado(respuesta)])
  /\ IF respuesta = "summary"
     THEN procesadas' = procesadas + 1 /\ log_entries' = Append(log_entries, row)
     ELSE UNCHANGED <<procesadas, log_entries>>
  /\ respuesta' = "none"
  /\ row' = row + 1
  /\ pc' = "b_loop"
  /\ UNCHANGED <<runner, saltadas, calls, runVars, fnVars, stepVars, saveVars, apiVars>>

\* The loop is over: the log is appended and the summary returned.
BatchReturn ==
  /\ pc = "b_loop" /\ row > Len(df)
  /\ pc' = "b_done"
  /\ UNCHANGED <<batchVars, runVars, fnVars, stepVars, saveVars, apiVars>>

NextBatch == SkipRow \/ ClaimRow \/ InvokeCore \/ FinalizeRow \/ BatchReturn

SpecBatch == InitBatch /\ [][NextBatch]_vars


\* ------------------------------------------- the download strategies on their own
\* Everything of the run that the strategies leave alone.
restOfRun == <<inputVars, browser, dom, all_items, revealVars, filtered, idx, d_real,
               descargadas, errores, result, fromClicks, skipped, persisted, how, trail,
               state_writes, saveVars, apiVars>>

TestIdLocator == "[data-testid='download-invoice-pdf-button']"
LabelTexts == <<"Descargar factura", "Download invoice", "Download", "Descargar", "Descargar PDF">>
GenericSelectors ==
  << "button:has-text('Descargar factura')", "a:has-text('Descargar factura')",
     "button:has-text('Download')", "a:has-text('Download')",
     "[data-testid='download-invoice-receipt-pdf-button']" >>

_try_click_fast_clickOnly(dl, clicked, signal) == <<dl \/ signal, clicked>>
\* _try_click_fast(loc): the wait for visibility is advisory; the click runs inside
\* expect_download, so a click that raises or a download that does not arrive in
\* time gives False and leaves download as it was; otherwise download is set.
\* <<download, returned value>>
_try_click_fast(dl, clicked, signal) ==
  IF clicked /\ signal THEN <<TRUE, TRUE>> ELSE <<dl, FALSE>>

Attempt(loc, clicked, signal) == [loc |-> loc, clicked |-> clicked, signal |-> signal]

InitDownload ==
  /\ pc = "dl_testid"
  /\ RunIdle /\ FnIdle /\ BatchIdle /\ StepIdle /\ SaveIdle /\ ApiIdle

\* 1) the data-testid of the portal
TryTestId ==
  /\ pc = "dl_testid"
  /\ \E clicked \in BOOLEAN, signal \in BOOLEAN :
       LET r == _try_click_fast(download, clicked, signal) IN
       /\ download' = r[1]
       /\ ok_clicked' = r[2]
       /\ tried' = Append(tried, Attempt(TestIdLocator, clicked, signal))
  /\ pos' = 0
  /\ pc' = "dl_text"
  /\ UNCHANGED <<restOfRun, fnVars, batchVars>>

\* 2) if not ok_clicked: the label texts, one pass of the for loop (break on success)
TryLabelText ==
  /\ pc = "dl_text"
  /\ IF ok_clicked \/ pos = Len(LabelTexts)
     THEN /\ pc' = "dl_sel" /\ pos' = 0
          /\ UNCHANGED <<download, ok_clicked, tried>>
     ELSE \E clicked \in BOOLEAN, signal \in BOOLEAN :
            LET r == _try_click_fast(download, clicked, signal) IN
            /\ download' = r[1]
            /\ ok_clicked' = r[2]
            /\ tried' = Append(tried, Attempt(LabelTexts[pos + 1], clicked, signal))
            /\ pos' = pos + 1
            /\ pc' = "dl_text"
  /\ UNCHANGED <<restOfRun, fnVars, batchVars>>

\* 3) if not ok_clicked: the generic selectors, one pass of the for loop
TrySelector ==
  /\ pc = "dl_sel"
  /\ IF ok_clicked \/ pos = Len(GenericSelectors)
     THEN /\ pc' = "dl_end" /\ pos' = 0
          /\ UNCHANGED <<download, ok_clicked, tried>>
     ELSE \E clicked \in BOOLEAN, signal \in BOOLEAN :
            LET r == _try_click_fast(download, clicked, signal) IN
            /\ download' = r[1]
            /\ ok_clicked' = r[2]
            /\ tried' = Append(tried, Attempt(GenericSelectors[pos + 1], clicked, signal))
            /\ pos' = pos + 1
            /\ pc' = "dl_sel"
  /\ UNCHANGED <<restOfRun, fnVars, batchVars>>

NextDownload == TryTestId \/ TryLabelText \/ TrySelector

SpecDownload == InitDownload /\ [][NextDownload]_vars


\* --------------------------------------------------- locating the billing frame
\* page.frames, in document order (the main frame first): of each frame, whether
\* its address contains one of "stripe", "billing", "portal", and whether a text
\* such as invoice / factura / history / historial shows in it within the wait.
FrameKinds == [url : BOOLEAN, text : BOOLEAN]
RECURSIVE SeqsUpTo(_, _)
SeqsUpTo(S, n) ==
  IF n = 0 THEN {<<>>}
  ELSE SeqsUpTo(S, n - 1) \cup {Append(q, x) : q \in {r \in SeqsUpTo(S, n - 1) : Len(r) = n - 1}, x \in S}
FrameLists == SeqsUpTo(FrameKinds, MaxFrames) \ {<<>>}
NoFrame == 0

RECURSIVE FindFrom(_, _)
\* for fr in page.frames: the address test, then the text test, on the same frame
\* before the next frame is looked at; return None after the loop
FindFrom(frames, i) ==
  IF i > Len(frames) THEN NoFrame
  ELSE IF frames[i].url THEN i
  ELSE IF frames[i].text THEN i
  ELSE FindFrom(frames, i + 1)
_find_billing_frame_addressFirst(frames) ==
  LET byUrl == {i \in 1..Len(frames) : frames[i].url}
      byText == {i \in 1..Len(frames) : frames[i].text}
  IN IF byUrl # {} THEN CHOOSE i \in byUrl : \A j \in byUrl : i <= j
     ELSE IF byText # {} THEN CHOOSE i \in byText : \A j \in byText : i <= j
     ELSE NoFrame
_find_billing_frame(frames) == FindFrom(frames, 1)

InitFrame ==
  /\ pc = "find"
  /\ arg \in FrameLists
  /\ out = NoFrame
  /\ RunIdle /\ BatchIdle /\ StepIdle /\ SaveIdle /\ ApiIdle

\* billing_frame = _find_billing_frame(new_page); target = billing_frame if
\* billing_frame else new_page (NoFrame stands for the page itself)
LocateFrame ==
  /\ pc = "find"
  /\ out' = _find_billing_frame(arg)
  /\ pc' = "found"
  /\ UNCHANGED <<arg, runVars, stepVars, saveVars, apiVars, batchVars>>

NextFrame == LocateFrame

SpecFrame == InitFrame /\ [][NextFrame]_vars


\* ------------------------------------------------------- focusing the invoice tab
TabLabels ==
  << "Invoices", "Invoice history", "Billing history", "Payments", "Statements",
     "Facturas", "Historial de facturas", "Historial", "Pagos", "View all invoices",
     "Ver todas las facturas" >>

Click(loc, ok) == [loc |-> loc, ok |-> ok]

AfterClick_returnAnyway(ok) == "return"
\* el.click() inside the try: when it raises, "continue" with the next label; when
\* it does not, the short wait and "return True"
AfterClick(ok) == IF ok THEN "return" ELSE "continue"

InitFocus ==
  /\ pc = "focus"
  /\ arg = NoArg /\ out = FALSE
  /\ RunIdle /\ BatchIdle /\ StepIdle /\ SaveIdle /\ ApiIdle

\* One pass of the for loop of _focus_invoice_tab_if_needed, or its end: a label
\* that does not become visible in time is passed over without a click.
FocusLabel ==
  /\ pc = "focus"
  /\ IF pos = Len(TabLabels)
     THEN /\ out' = FALSE
          /\ pc' = "focus_end"
          /\ UNCHANGED <<pos, tried>>
     ELSE \E visible \in BOOLEAN, clickOk \in BOOLEAN :
            IF ~visible
            THEN /\ pos' = pos + 1
                 /\ UNCHANGED <<pc, out, tried>>
            ELSE /\ tried' = Append(tried, Click(TabLabels[pos + 1], clickOk))
                 /\ pos' = pos + 1
                 /\ IF AfterClick(clickOk) = "return"
                    THEN out' = TRUE /\ pc' = "focus_end"
                    ELSE UNCHANGED <<pc, out>>
  /\ UNCHANGED <<arg, ok_clicked, runVars, batchVars, saveVars, apiVars>>

NextFocus == FocusLabel

SpecFocus == InitFocus /\ [][NextFocus]_vars


\* ------------------------------------------------------ the "show more" click
\* labels of _click_any_more_button (a' stands for the accented a)
MoreLabels ==
  << "Ver ma's", "Ver mas", "Mostrar ma's", "Mostrar mas",
     "View more", "Load more", "See more", "More" >>

\* Texts of buttons and links as a page may show them, each with what the helper
\* computes of it: the labels it contains when case is ignored, whether it contains
\* an entry of the forbidden list, its length as read and its length once stripped.
ButtonTexts ==
  { "View more", "More", "Ver mas", "More payment options", "Ver mas opciones",
    "Load more payments", " OK ", "Descargar factura" }
LabelsIn(t) ==
  CASE t = "View more" -> {"View more", "More"}
    [] t = "More" -> {"More"}
    [] t = "Ver mas" -> {"Ver mas"}
    [] t = "More payment options" -> {"More"}
    [] t = "Ver mas opciones" -> {"Ver mas"}
    [] t = "Load more payments" -> {"Load more", "More"}
    [] OTHER -> {}
HasForbidden(t) == t \in {"More payment options", "Ver mas opciones", "Load more payments"}
RawLen(t) ==
  CASE t = "" -> 0
    [] t = "View more" -> 9
    [] t = "More" -> 4
    [] t = "Ver mas" -> 7
    [] t = "More payment options" -> 20
    [] t = "Ver mas opciones" -> 16
    [] t = "Load more payments" -> 18
    [] t = " OK " -> 4
    [] t = "Descargar factura" -> 17
StripLen(t) == IF t = " OK " THEN 2 ELSE RawLen(t)

Skippable_shortOnly(normalized) == StripLen(normalized) <= 3
\* if any(bad in normalized for bad in forbidden) or len(normalized) <= 3: continue
Skippable(normalized) == HasForbidden(normalized) \/ StripLen(normalized) <= 3

\* the test of the scan in the page: t.length <= 3, forbidden.some(...), then
\* labels.some(l => t.includes(l))
ScanClicks(t) == ~(RawLen(t) <= 3) /\ ~HasForbidden(t) /\ LabelsIn(t) # {}

RECURSIVE ScanFrom(_, _)
\* for (const el of nodes): the first element that passes is clicked
ScanFrom(nodes, i) ==
  IF i > Len(nodes) THEN 0
  ELSE IF ScanClicks(nodes[i]) THEN i
  ELSE ScanFrom(nodes, i + 1)

MoreClick(text, via) == [loc |-> text, via |-> via]
NoElement == "<none>"

\* arg: the buttons and links of the page, in document order
InitMore ==
  /\ pc = "more_direct"
  /\ arg \in SeqsUpTo(ButtonTexts, MaxNodes)
  /\ out = FALSE
  /\ RunIdle /\ BatchIdle /\ StepIdle /\ SaveIdle /\ ApiIdle

\* 1) One pass of the for loop over the labels, or its end. The element the label
\* finds may not show in time, its text may not be readable (normalized stays ""),
\* and the scroll or the click may raise: each of these goes on with the next label.
DirectMatch ==
  /\ pc = "more_direct"
  /\ IF pos = Len(MoreLabels)
     THEN /\ pc' = "more_scan"
          /\ UNCHANGED <<pos, tried, out>>
     ELSE \E cand \in {NoElement} \cup {t \in ButtonTexts : MoreLabels[pos + 1] \in LabelsIn(t)},
             readable \in BOOLEAN, clickOk \in BOOLEAN :
            LET normalized == IF readable THEN cand ELSE "" IN
            IF cand = NoElement \/ Skippable(normalized) \/ ~clickOk
            THEN /\ pos' = pos + 1
                 /\ UNCHANGED <<pc, tried, out>>
            ELSE /\ tried' = Append(tried, MoreClick(cand, "direct"))
                 /\ pos' = pos + 1
                 /\ out' = TRUE
                 /\ pc' = "more_end"
  /\ UNCHANGED <<arg, ok_clicked, runVars, batchVars, saveVars, apiVars>>

\* 2) The scan inside the page, reached only when the loop returned nothing; when
\* the evaluation raises nothing was clicked and the helper returns False.
GenericScan ==
  /\ pc = "more_scan"
  /\ \E evalOk \in BOOLEAN :
       LET i == IF evalOk THEN ScanFrom(arg, 1) ELSE 0 IN
       IF i = 0
       THEN out' = FALSE /\ tried' = tried
       ELSE out' = TRUE /\ tried' = Append(tried, MoreClick(arg[i], "scan"))
  /\ pc' = "more_end"
  /\ UNCHANGED <<arg, ok_clicked, pos, runVars, batchVars, saveVars, apiVars>>

NextMore == DirectMatch \/ GenericScan

SpecMore == InitMore /\ [][NextMore]_vars


\* ------------------------------------------- the destination paths of one run
\* The item loop seen from the file system: no range is given, so every opened item
\* passes the second check and goes on to its download. files is the log of the
\* writes under Desktop/FACTURAS, <<path, href>> in order; writing to a path that is
\* there already replaces its content (save_as and Path.replace both overwrite).
EntradaTags == {NoTag, "cursor", "Cursor AI", "???"}
UsuarioTags == {NoTag, "ana@x.com", "ana@y.org", "Luis.P@x.com"}

\* _slugify_filename(text, default): lower case without accents, every run of other
\* characters becomes "_", leading and trailing "_" dropped; default when the text
\* or the result is empty.
_slugify_filename(text, default) ==
  CASE text = "Cursor AI" -> "cursor_ai"
    [] text = "Luis.P" -> "luis_p"
    [] text \in {NoTag, "???"} -> default
    [] OTHER -> text

\* text.split("@")[0]
LocalPart(text) ==
  CASE text \in {"ana@x.com", "ana@y.org"} -> "ana"
    [] text = "Luis.P@x.com" -> "Luis.P"
    [] OTHER -> text

\* _usuario_alias(text)
_usuario_alias(text) ==
  IF text = NoTag THEN "usuario" ELSE _slugify_filename(LocalPart(text), "usuario")

\* ruta_archivo = base / f"{fecha_texto}_{entrada_slug}_{usuario_slug}.pdf"
ruta_archivo(fecha_texto, entrada, usuario) ==
  <<fecha_texto, _slugify_filename(entrada, "cursor"), _usuario_alias(usuario)>>

Paths(log) == {log[k][1] : k \in 1..Len(log)}

restOfSave == <<inputVars, browser, dom, all_items, revealVars, filtered, result, fromClicks,
                skipped, trail, state_writes, entrada_tag, usuario_tag, fnVars, stepVars,
                batchVars, apiVars>>

InitSave ==
  /\ pc = "sv_open"
  /\ dfrom = NoDate /\ dto = NoDate /\ download_all = FALSE /\ has_cookies = FALSE
  /\ date_from = <<"absent", NoDate>> /\ date_to = <<"absent", NoDate>>
  /\ entrada_tag \in EntradaTags /\ usuario_tag \in UsuarioTags
  /\ browser = "open" /\ dom = <<>>
  /\ \E d \in AllDoms : d # <<>> /\ all_items = _collect_invoice_items(d, TRUE)
  /\ filtered = all_items
  /\ max_rounds = 0 /\ rounds = 0 /\ last_count = 0 /\ n_items = 0 /\ ret = "none"
  /\ idx = 1 /\ d_real = NoDate /\ download = FALSE
  /\ descargadas = 0 /\ errores = <<>>
  /\ result = NoResult
  /\ fromClicks = 0 /\ skipped = 0 /\ persisted = 0 /\ how = ""
  /\ trail = <<>> /\ state_writes = <<>> /\ files = <<>>
  /\ FnIdle /\ BatchIdle /\ StepIdle /\ ApiIdle

\* fecha_texto = _extract_invoice_date(invoice_page); d_real = strptime(fecha_texto);
\* the strategies have set download or left it None. (A date with a short year
\* raises in strptime and ends the run: such a run saves nothing more.)
StampItem ==
  /\ pc = "sv_open" /\ idx <= Len(filtered)
  /\ \E body \in Texts, today \in Today :
       LET p == _parse_human_date_to_dateobj(body)
           d == IF p = NoDate THEN today ELSE p
       IN /\ YearHasFourDigits(d)
          /\ SecondCheck(d, dfrom, dto)
          /\ d_real' = d
  /\ \E got \in BOOLEAN : download' = got
  /\ pc' = "sv_save"
  /\ UNCHANGED <<restOfSave, idx, descargadas, errores, persisted, how, files>>

\* download.save_as(str(ruta_archivo)), or Path(tmp).replace(ruta_archivo)
SaveItem ==
  /\ pc = "sv_save"
  /\ \E saveOk \in BOOLEAN, moveOk \in BOOLEAN :
       LET c == SaveOutcome(descargadas, errores, filtered[idx][1], download, saveOk, moveOk)
           written == download /\ (saveOk \/ moveOk)
       IN /\ descargadas' = c[1]
          /\ errores' = c[2]
          /\ persisted' = IF written THEN persisted + 1 ELSE persisted
          /\ files' = IF written
                      THEN Append(files, <<ruta_archivo(d_real, entrada_tag, usuario_tag), filtered[idx][1]>>)
                      ELSE files
  /\ idx' = idx + 1
  /\ d_real' = NoDate /\ download' = FALSE
  /\ pc' = IF idx < Len(filtered) THEN "sv_open" ELSE "sv_done"
  /\ UNCHANGED <<restOfSave, how>>

NextSave == StampItem \/ SaveItem

SpecSave == InitSave /\ [][NextSave]_vars


\* ------------------------------------------- the HTTP endpoint
\* POST /api/facturas/descargar: the coroutine hands descargar_facturas to the event
\* loop's default executor (run_in_executor(None, ...): a pool of worker threads,
\* more of them than there are requests here) and awaits it, so the event loop
\* goes on accepting requests. A request is where it stands (at) and its payload.
MaxRequests == 2
Requests == 1..MaxRequests
Payloads == {"range", "malformed"}
\* descargar_facturas as the endpoint's worker thread goes through it: the inputs
\* and the launch (the context reads state.json), the login (state.json written
\* after a fresh login), the portal and the item loop (files written), the end
\* (state.json written, browser closed).
CoreSteps == <<"start", "login", "work", "end">>
StepOf(at) == CHOOSE k \in 1..Len(CoreSteps) : CoreSteps[k] = at
Active(i) == \E k \in 1..Len(CoreSteps) : req[i].at = CoreSteps[k]

restOfApi == <<runVars, fnVars, stepVars, saveVars, batchVars>>

InitEndpoint ==
  /\ pc = "api"
  /\ req = [i \in Requests |-> [at |-> "none", payload |-> "none"]]
  /\ RunIdle /\ FnIdle /\ BatchIdle /\ StepIdle /\ SaveIdle

\* async def descargar_facturas_endpoint(payload) up to the await
Post(i) ==
  /\ req[i].at = "none"
  /\ \E p \in Payloads : req' = [req EXCEPT ![i] = [at |-> "submitted", payload |-> p]]
  /\ UNCHANGED <<pc, restOfApi>>

\* a worker thread of the executor takes the call: descargar_facturas begins
BeginCore(i) ==
  /\ req[i].at = "submitted"
  /\ req' = [req EXCEPT ![i].at = CoreSteps[1]]
  /\ UNCHANGED <<pc, restOfApi>>

\* one stretch of descargar_facturas in its thread: on to the next, or an exception
\* (the ValueError of a malformed date at the start, the wrapped error later)
StepCore(i) ==
  /\ Active(i)
  /\ LET k == StepOf(req[i].at)
         next == IF k < Len(CoreSteps) THEN CoreSteps[k + 1] ELSE "returned"
     IN IF k = 1 /\ req[i].payload = "malformed"
        THEN req' = [req EXCEPT ![i].at = "raised"]
        ELSE \E ok \in BOOLEAN : req' = [req EXCEPT ![i].at = IF ok THEN next ELSE "raised"]
  /\ UNCHANGED <<pc, restOfApi>>

\* the await is over: return resultado, or HTTPException(status_code=500)
Respond(i) ==
  /\ req[i].at \in {"returned", "raised"}
  /\ req' = [req EXCEPT ![i].at = IF req[i].at = "returned" THEN "200" ELSE "500"]
  /\ UNCHANGED <<pc, restOfApi>>

NextEndpoint == \E i \in Requests : Post(i) \/ BeginCore(i) \/ StepCore(i) \/ Respond(i)

SpecEndpoint == InitEndpoint /\ [][NextEndpoint]_vars


\* ================================================================= claims
\* Range membership as the specification words it: [from, to] inclusive, an absent
\* bound unconstrained.
Within(d) == (dfrom = NoDate \/ d >= dfrom) /\ (dto = NoDate \/ d <= dto)
EstDate(e) == _parse_human_date_to_dateobj(e[2])
QueueBuilt == pc \in {"open", "extract", "skip", "download", "save", "return", "finish", "done"}
AllUndated(d) == \A i \in 1..Len(d) : d[i][1] = "junk"

\* C1: whatever the listing does (growth on every round, a click on every round),
\* the reveal loop never runs more than max_rounds rounds, and once max_rounds
\* rounds have run its next step is the end of the loop.
RevealWithinMaxRounds ==
  /\ [](rounds <= max_rounds)
  /\ [][pc = "reveal" /\ rounds >= max_rounds => pc' = "reveal_end" /\ rounds' = rounds]_vars
\* C1 witness: the listing grew in every round and the loop stands at its ceiling.
RevealHitsCeiling == pc = "reveal" /\ rounds = max_rounds /\ max_rounds >= 2 /\ last_count >= 2

\* C2: the from-driven expansion always terminates: a run that is in the from-driven
\* loop eventually leaves it.
FromExpansionTerminates == (pc = "from_loop") ~> (pc # "from_loop")

\* C3: with a from bound, every listing entry undated and the expand control
\* clickable on every attempt, the from-driven expansion makes no more expansion
\* attempts than the round ceiling and then stops.
FromOnlyStopsAtMaxRounds ==
  (pc = "from_loop" /\ AllUndated(dom)) => fromClicks <= InitialRounds

\* C4: the work queue holds exactly the revealed entries that are undated or whose
\* estimated date lies in [from, to]; each once, and nothing else.
QueueIsRangeFilter ==
  QueueBuilt =>
    /\ \A i \in 1..Len(all_items) :
         LET e == all_items[i] IN
         Cardinality({j \in 1..Len(filtered) : filtered[j] = e})
           = IF EstDate(e) = NoDate \/ Within(EstDate(e)) THEN 1 ELSE 0
    /\ \A j \in 1..Len(filtered) : \E i \in 1..Len(all_items) : all_items[i] = filtered[j]
\* C4 witness: both bounds set, a dated entry left out, a queue that is not empty.
QueueDropsOutOfRange ==
  /\ pc = "open" /\ dfrom # NoDate /\ dto # NoDate
  /\ \E i \in 1..Len(all_items) : EstDate(all_items[i]) # NoDate /\ ~Within(EstDate(all_items[i]))
  /\ filtered # <<>>

\* C5: the queue is in ascending order of estimated date, every undated entry comes
\* after every dated entry, and entries of equal estimated date (and the undated
\* ones among themselves) keep their listing order.
QueueOrderedUndatedLast ==
  QueueBuilt =>
    \A i, j \in 1..Len(filtered) :
      i < j =>
        LET di == EstDate(filtered[i])
            dj == EstDate(filtered[j])
        IN /\ (di # NoDate /\ dj # NoDate => di <= dj)
           /\ ~(di = NoDate /\ dj # NoDate)
           /\ (di = dj => filtered[i][1] < filtered[j][1])

\* C5 (amended): the queue is in ascending order of the sort key, an undated entry
\* having the key date_max: every undated entry comes after every dated entry whose
\* estimated date is before date_max, and entries of equal key (equal dates, the
\* undated ones, an undated one and one dated date_max) keep their listing order.
KeyOf(e) == IF EstDate(e) = NoDate THEN date_max ELSE EstDate(e)
QueueOrderedByKey ==
  QueueBuilt =>
    \A i, j \in 1..Len(filtered) :
      i < j =>
        /\ KeyOf(filtered[i]) <= KeyOf(filtered[j])
        /\ (KeyOf(filtered[i]) = KeyOf(filtered[j]) => filtered[i][1] < filtered[j][1])
        /\ ~(EstDate(filtered[i]) = NoDate /\ EstDate(filtered[j]) \notin {NoDate, date_max})
\* C5 witness: the sort moved a dated entry in front of an undated one that the
\* listing showed first.
SortMovedDatedFirst ==
  /\ pc = "open" /\ Len(filtered) = 2
  /\ EstDate(filtered[1]) # NoDate /\ EstDate(filtered[2]) = NoDate
  /\ filtered[1][1] > filtered[2][1]

\* C6: no download is attempted for an item whose authoritative date is outside
\* [from, to]: the download and save steps are reached only with a date in range, and
\* a skip step fetches nothing, saves nothing and, unless it raises, moves on to the
\* next item.
SkipMeansNoDownload ==
  /\ [](pc \in {"download", "save", "return"} => d_real # NoDate /\ Within(d_real))
  /\ [](pc = "skip" => ~Within(d_real))
  /\ [](download => Within(d_real))
  /\ [][pc = "skip" =>
          /\ persisted' = persisted /\ descargadas' = descargadas /\ ~download'
          /\ \/ pc' = "open" /\ idx' = idx + 1
             \/ pc' = "finish" /\ idx = Len(filtered)
             \/ pc' = "fatal"]_vars
\* C6 witness: the first of two queue items was skipped and the second is up.
SkippedThenNext == pc = "open" /\ idx = 2 /\ skipped = 1 /\ persisted = 0 /\ descargadas = 0

\* C7: a skip adds nothing to descargadas or errores, and when every in-range
\* download succeeded the summary's descargadas is the number of queue items whose
\* authoritative date is in range, with no error entry.
SkipIsNotAnError ==
  /\ [][pc = "skip" => descargadas' = descargadas /\ errores' = errores]_vars
  /\ [](pc = "done" /\ persisted + skipped = Len(filtered) =>
          result.descargadas = Len(filtered) - skipped /\ result.errores = <<>>)
\* C7 witness: a full queue with one item reclassified out of range, the rest saved.
OneSkippedRestSaved ==
  /\ pc = "done" /\ Len(filtered) = MaxItems /\ skipped = 1
  /\ result.descargadas = MaxItems - 1 /\ result.errores = <<>>

\* C8: a download whose save_as fails and whose temporary file is moved to the
\* destination counts as a success: descargadas grows by one, errores is untouched.
MovedCountsAsSuccess ==
  [][pc = "save" /\ how' = "moved" => descargadas' = descargadas + 1 /\ errores' = errores]_vars
\* C8 witness: the first item was saved by relocation.
MovedOnce == pc = "return" /\ how = "moved" /\ descargadas = 1 /\ errores = <<>>

\* C9: when no download strategy worked for an in-range item, exactly one error
\* entry with that item's href is appended, descargadas is unchanged and the loop
\* goes on with the return to the listing; a run that ends normally has gone through
\* the whole queue and returns the summary with these entries.
FailedDownloadIsRecorded ==
  /\ [][pc = "save" /\ ~download =>
          /\ Len(errores') = Len(errores) + 1
          /\ SubSeq(errores', 1, Len(errores)) = errores
          /\ errores'[Len(errores')].href = filtered[idx][1]
          /\ descargadas' = descargadas
          /\ pc' = "return"]_vars
  /\ [](pc = "done" => /\ result.kind = "summary"
                       /\ (filtered # <<>> => idx = Len(filtered) + 1 /\ result.errores = errores))
\* C9 witness: the first item's download failed, a later item was still saved.
FailedThenSaved ==
  /\ pc = "done" /\ Len(filtered) >= 2 /\ Len(result.errores) = 1
  /\ result.errores[1].href = filtered[1][1]
  /\ result.errores[1].error = "No se pudo iniciar la descarga"
  /\ persisted >= 1 /\ result.descargadas = persisted

\* C10: a navigation failure while opening a queue entry or while returning to the
\* listing is that item's failure and never ends the run.
NavigationFailureIsPerItem ==
  [][(pc \in {"open", "skip", "return"}) => (pc' # "fatal")]_vars

Ended == pc \in {"done", "fatal", "invalid"}
Malformed(s) == s[1] = "malformed"

\* C11: an invocation of descargar_facturas ends in one of two ways only: with the
\* structured summary, or with the single error that carries the unified message; the
\* error of a malformed date bound is no exception to this.
EndsWithSummaryOrWrappedError == Ended => result.kind \in {"summary", "error"}

\* C12: with a malformed date_from or date_to (the other bound well-formed or not)
\* the invocation fails at its first step: no browser is launched, no listing is
\* seen or collected, nothing is downloaded or saved, and the run ends there.
MalformedBoundStartsNothing ==
  /\ []((Malformed(date_from) \/ Malformed(date_to)) =>
          /\ pc \in {"parse", "invalid"}
          /\ browser = "none" /\ dom = <<>> /\ all_items = <<>> /\ filtered = <<>>
          /\ descargadas = 0 /\ persisted = 0 /\ ~download
          /\ (pc = "invalid" => result.kind = "ValueError"))
  /\ [][(pc = "parse" /\ (Malformed(date_from) \/ Malformed(date_to))) => (pc' = "invalid")]_vars
  /\ [](pc = "invalid" => (Malformed(date_from) \/ Malformed(date_to)))
\* C12 witness: the run ended on a malformed date_to, date_from being well-formed.
FailedOnMalformedTo ==
  pc = "invalid" /\ date_from[1] = "wellformed" /\ Malformed(date_to) /\ browser = "none"

\* The last day of month m of year y, by the calendar rule: 31 days, 30 for April,
\* June, September and November, February 29 in a leap year and 28 otherwise.
LastDayOf(y, m) ==
  CASE m \in {1, 3, 5, 7, 8, 10, 12} -> 31
    [] m \in {4, 6, 9, 11} -> 30
    [] m = 2 -> IF y % 400 = 0 THEN 29 ELSE IF y % 100 = 0 THEN 28 ELSE IF y % 4 = 0 THEN 29 ELSE 28
\* The argument is "YYYY-MM" for a valid year and month.
ArgIsValidMonth ==
  /\ Len(arg.s) = 3 /\ arg.s[1].k = "num" /\ arg.s[2].k = "dash" /\ arg.s[3].k = "num"
  /\ arg.s[1].n = 4 /\ arg.s[3].n = 2
  /\ arg.s[1].v \in 1..9999 /\ arg.s[3].v \in 1..12

\* C13: for every valid year Y and month M, _parse_input_date("Y-M") is the first
\* day of that month, and with end=True its last calendar day (28 or 29 February by
\* the leap rule, 30 or 31 otherwise, 31 December for month 12); both lie in month M
\* of year Y, the first not after the last.
MonthBoundsAreFirstAndLastDay ==
  (pc = "returned" /\ ArgIsValidMonth) =>
    LET y == arg.s[1].v
        m == arg.s[3].v
    IN /\ out.kind = "date" /\ out.y = y /\ out.m = m
       /\ out.d = (IF arg.end THEN LastDayOf(y, m) ELSE 1)
       /\ 1 <= out.d /\ out.d <= LastDayOf(y, m)
\* C13 witness: "2024-02" with end=True gave 29 February 2024.
LeapFebruaryEnd ==
  /\ pc = "returned" /\ arg.end /\ arg.s = YMText(2024, 2) /\ out = Cal(2024, 2, 29)

\* C14: for every calendar date (its year written with four digits) and every key
\* of the month lexicon for its month, the texts "<day> de <month> de <year>",
\* "<day> <month> <year>", "<month> <day>, <year>" and the numeric YYYY-MM-DD are
\* all parsed to that one date.
FourFormsGiveTheSameDate ==
  (pc = "returned" /\ arg.of # NoCal /\ arg.s \in FormsOf(arg.of)) => out = arg.of
\* C14 witness: "Setiembre 5, 2025" was parsed to 5 September 2025.
ParsedSetiembre ==
  /\ pc = "returned"
  /\ arg.s = <<CapWord("setiembre"), Sp, Num(5, 1), Comma, Sp, Num(2025, 4)>>
  /\ out = Cal(2025, 9, 5)

\* C15: every date the parser returns, written as YYYY-MM-DD and parsed again,
\* comes back as the same date.
IsoRoundTrip ==
  /\ [][(pc = "returned" /\ pc' = "reparsed") => (out' = out)]_vars
  /\ [](pc = "reparsed" => (out.kind = "date" /\ arg.s = IsoFormat(out)))
\* C15 witness: a date of a year below 1000 went through the round trip.
ShortYearRoundTrip == pc = "reparsed" /\ out = Cal(999, 10, 5) /\ arg.of = out

\* A state cell equals the trigger value "Ejecutar", compared without regard to
\* case and surrounding white space.
MatchesTrigger(c) == c \in {"Ejecutar", " EJECUTAR "}
Called(i) == \E k \in 1..Len(calls) : calls[k] = i

CoreOncePerTriggerRow ==
  /\ [][(pc = "b_loop" /\ row <= Len(df)) =>
          IF MatchesTrigger(sheet[row].estado)
          THEN pc' = "b_call" /\ row' = row
          ELSE pc' = "b_loop" /\ row' = row + 1 /\ calls' = calls]_vars
  /\ [][(pc = "b_call") => (calls' = Append(calls, row) /\ pc' = "b_final" /\ row' = row)]_vars
  /\ [][(pc = "b_final") => (calls' = calls /\ pc' = "b_loop" /\ row' = row + 1)]_vars
  /\ [](\A k \in 1..Len(calls) :
          /\ calls[k] < row \/ (pc = "b_final" /\ calls[k] = row)
          /\ \A j \in 1..Len(calls) : k < j => calls[k] < calls[j])
  /\ [](pc = "b_done" => row = Len(df) + 1)
\* C17 witness: the invocation for the first row raised and the core was still
\* invoked for the second.
SecondRowAfterFailure ==
  /\ pc = "b_final" /\ row = 2 /\ calls = <<1, 2>> /\ sheet[1].estado = "Error"

Inverted == dfrom # NoDate /\ dto # NoDate /\ dfrom > dto
UndatedIn(items) == {i \in 1..Len(items) : EstDate(items[i]) = NoDate}

\* C18: with an inverted range (from later than to) the filter excludes everything:
\* whatever entries were revealed, the work queue is empty.
InvertedRangeEmptiesQueue == (Inverted /\ QueueBuilt) => filtered = <<>>

\* C18 (amended): with an inverted range the filter excludes every entry that has an
\* estimated date; the work queue is exactly the undated entries, in listing order
\* (empty when every revealed entry is dated). Each of them is skipped by the second
\* check once opened, so nothing is downloaded.
InvertedRangeKeepsOnlyUndated ==
  Inverted =>
    /\ QueueBuilt =>
         /\ \A j \in 1..Len(filtered) : EstDate(filtered[j]) = NoDate
         /\ Len(filtered) = Cardinality(UndatedIn(all_items))
         /\ \A i \in UndatedIn(all_items) : \E j \in 1..Len(filtered) : filtered[j] = all_items[i]
         /\ \A j, k \in 1..Len(filtered) : j < k => filtered[j][1] < filtered[k][1]
    /\ pc \notin {"download", "save", "return"}
    /\ descargadas = 0 /\ persisted = 0 /\ ~download
\* C18 witness: an inverted range, a dated and an undated entry revealed, and the
\* undated one in the queue.
InvertedQueueHasUndated ==
  /\ Inverted /\ pc = "open" /\ Len(all_items) = 2 /\ Len(filtered) = 1
  /\ EstDate(filtered[1]) = NoDate

\* The oldest date known from the collected entries, undated entries left out.
KnownDates == {EstDate(all_items[i]) : i \in 1..Len(all_items)} \ {NoDate}
OldestKnown == IF KnownDates = {} THEN NoDate ELSE CHOOSE d \in KnownDates : \A x \in KnownDates : d <= x
MustExpand == OldestKnown = NoDate \/ OldestKnown >= dfrom

\* C19: the from-driven loop goes into another expand-and-collect cycle only while
\* no entry has a parseable date or the oldest parseable date is >= from, and it
\* stops only when the oldest known date is strictly before from or when the
\* attempt gave no click and no growth of the entry count.
FromLoopStopsOnPlateau ==
  /\ [][(pc = "from_loop" /\ pc' = "from_loop") => MustExpand]_vars
  /\ [][(pc = "from_loop" /\ pc' # "from_loop") =>
          (~MustExpand \/ (fromClicks' = 0 /\ Len(dom') <= Len(dom)))]_vars

\* C19 (amended): the loop makes another expansion attempt exactly while no entry has
\* a parseable date or the oldest parseable date is >= from (equal still expands);
\* it stops, without an attempt, when the oldest known date is strictly before from,
\* and otherwise only when the attempt clicked nothing: then it stops at once,
\* nothing more is collected and growth of the listing is not consulted.
FromLoopStopsOnFailedClick ==
  /\ [][(pc = "from_loop" /\ pc' = "from_loop") =>
          (MustExpand /\ fromClicks' = Min2(fromClicks + 1, FromClickCap))]_vars
  /\ [][(pc = "from_loop" /\ ~MustExpand) =>
          (pc' = "mode_all" /\ dom' = dom /\ all_items' = all_items)]_vars
  /\ [][(pc = "from_loop" /\ pc' # "from_loop") => (pc' = "mode_all" /\ all_items' = all_items)]_vars
  /\ []((pc = "from_loop" /\ MustExpand) => ENABLED (FromExpand /\ pc' = "from_loop"))
\* C19 witness: the oldest known date equals from and the loop has gone on
\* expanding, attempt after attempt.
ExpandsAtEqualDate ==
  pc = "from_loop" /\ OldestKnown = dfrom /\ fromClicks = FromClickCap

\* C20: in the reveal loop a round is followed by another round if and only if the
\* entry count observed in the round is strictly greater than the last recorded
\* count (which it then replaces) and fewer than max_rounds rounds have run; this
\* holds with or without a click: growth goes on, no growth stops.
RevealContinuesIffGrowth ==
  /\ [][(pc = "reveal" /\ rounds < max_rounds) =>
          /\ rounds' = rounds + 1
          /\ n_items' \in {0, Len(dom')}
          /\ (pc' = "reveal") <=> (n_items' > last_count)
          /\ (pc' = "reveal") => (last_count' = n_items')
          /\ (pc' # "reveal") => (pc' = "reveal_end" /\ last_count' = last_count)]_vars
  /\ [][(pc = "reveal" /\ rounds >= max_rounds) =>
          (pc' = "reveal_end" /\ rounds' = rounds /\ dom' = dom)]_vars
\* C20 witness: a round saw the count grow and the loop stands before another round.
RoundAfterGrowth ==
  /\ pc = "reveal" /\ rounds >= 1 /\ rounds < max_rounds
  /\ n_items >= 1 /\ last_count = n_items

\* C21: every run performs the initial reveal pass, bounded by 25 rounds, before any
\* mode-specific expansion and before filtering. After it: with from set only the
\* from-driven expansion runs; with from and to absent and download_all true the
\* full reveal runs with a budget of 60 rounds; with only a to bound, or with no
\* bounds and download_all false, the listing is expanded no further.
ModeSelectsTheExpansion ==
  /\ [][(pc = "locate") =>
          (pc' = "reveal" /\ max_rounds' = InitialRounds /\ ret' = "collect_initial")]_vars
  /\ [][(pc' = "collect_initial") =>
          (pc = "reveal_end" /\ max_rounds = InitialRounds /\ rounds <= InitialRounds)]_vars
  /\ [][(pc' \in {"from_loop", "mode_all"} /\ pc \notin {"from_loop", "mode_all"}) =>
          (pc = "collect_initial")]_vars
  /\ [][(pc' \in {"collect_all", "filter"}) =>
          (pc \in {"mode_all", "collect_all", "reveal_end"} /\ ret \in {"none", "collect_all"})]_vars
  /\ [][(pc = "collect_initial") =>
          (pc' = IF dfrom # NoDate THEN "from_loop" ELSE "mode_all")]_vars
  /\ [][(pc = "mode_all") =>
          IF download_all /\ dfrom = NoDate /\ dto = NoDate
          THEN pc' = "reveal" /\ max_rounds' = AllRounds /\ ret' = "collect_all"
          ELSE pc' = "filter" /\ dom' = dom /\ all_items' = all_items]_vars
  /\ [](ret = "collect_all" => (max_rounds = AllRounds /\ rounds <= AllRounds))
  /\ [](pc = "from_loop" => dfrom # NoDate)
  /\ [][(pc \in {"collect_initial", "mode_all"} /\ dfrom = NoDate /\ ~(download_all /\ dto = NoDate)) =>
          (dom' = dom /\ pc' \in {"mode_all", "filter"})]_vars
\* C21 witness: no bounds and download_all: the full reveal is running its rounds.
FullRevealRunning ==
  pc = "reveal" /\ ret = "collect_all" /\ rounds >= 1 /\ download_all /\ dfrom = NoDate /\ dto = NoDate

Strategies == <<TestIdLocator>> \o LabelTexts \o GenericSelectors
Won(a) == a.clicked /\ a.signal

\* C22: the download strategies are attempted in a fixed order: the stable control
\* identifier, then the label texts, then the generic selectors. The first attempt
\* that yields both a click and a download signal wins: no later strategy is attempted
\* after it, and short of such an attempt every strategy is attempted.
FirstSuccessWins ==
  /\ Len(tried) <= Len(Strategies)
  /\ \A i \in 1..Len(tried) : tried[i].loc = Strategies[i]
  /\ \A i \in 1..(Len(tried) - 1) : ~Won(tried[i])
  /\ download <=> (tried # <<>> /\ Won(tried[Len(tried)]))
  /\ ok_clicked <=> download
  /\ pc = "dl_end" => (download \/ Len(tried) = Len(Strategies))
\* C22 witness: the test id was clicked without a download signal, the first label
\* text failed, the second one gave click and signal, and nothing was tried after it.
WonAtSecondLabel ==
  /\ pc = "dl_end" /\ download /\ Len(tried) = 3
  /\ tried[1].clicked /\ ~tried[1].signal

\* The lifecycle of a work item as the specification draws it, on its two paths.
SkipPath == <<"OPEN", "EXTRACT_DATE", "SKIP">>
DownloadPath == <<"OPEN", "EXTRACT_DATE", "DOWNLOAD">>
FullTrails == {Append(SkipPath, "RETURN_TO_LISTING"), Append(DownloadPath, "RETURN_TO_LISTING")}
LoopOver == pc \in {"finish", "done"} /\ filtered # <<>>

\* C23 as stated: every work item, the last one included, goes through OPEN,
\* EXTRACT_DATE, exactly one of SKIP or DOWNLOAD, then RETURN_TO_LISTING, in that
\* order, on the skip path and on the download path: an item the loop has left
\* behind has gone through all four states.
EveryItemReturnsToListing ==
  (LoopOver \/ (pc = "open" /\ idx > 1)) => trail \in FullTrails

\* C23 as amended: an item goes through OPEN, EXTRACT_DATE and exactly one of SKIP
\* or DOWNLOAD, in that order; RETURN_TO_LISTING follows, on either path, only while
\* another item remains in the queue: after the last item the run goes to its end
\* without it. A run that ends fatally cuts the lifecycle of the open item short.
LifecycleReturnsWhileItemsRemain ==
  /\ pc = "open" => (IF idx > 1 THEN trail \in FullTrails ELSE trail = <<>>)
  /\ pc = "extract" => trail = <<"OPEN">>
  /\ pc \in {"skip", "download"} => trail = <<"OPEN", "EXTRACT_DATE">>
  /\ pc \in {"save", "return"} => trail = DownloadPath
  /\ LoopOver => (trail \in {SkipPath, DownloadPath} /\ idx = Len(filtered) + 1)
  /\ pc = "fatal" =>
        \/ trail = <<>>
        \/ \E t \in FullTrails, n \in 1..4 : trail = SubSeq(t, 1, n)
\* C23 witness: the second and last item of the queue was skipped and the loop is
\* over: the first item returned to the listing, the last one did not.
LastItemSkippedWithoutReturn ==
  pc = "finish" /\ Len(filtered) = 2 /\ trail = SkipPath /\ skipped >= 1

\* C24 as stated: the listing region is located with address matches preferred over text
\* matches over the root: if any frame has an address containing a portal keyword,
\* the returned context is such a frame, even when a frame earlier in document order
\* matches only by its visible text; failing that a frame matching by text is
\* returned; if no frame matches either way the root is used.
AddressMatchPreferred ==
  pc = "found" =>
    LET byUrl == {i \in 1..Len(arg) : arg[i].url}
        byText == {i \in 1..Len(arg) : arg[i].text}
    IN /\ byUrl # {} => out \in byUrl
       /\ (byUrl = {} /\ byText # {}) => out \in byText
       /\ (byUrl = {} /\ byText = {}) => out = NoFrame

\* C25 as stated: one call of the tab-focus step attempts at most one click: once a
\* click has been attempted on the first visible label, no click is attempted on any
\* later label, whether or not that click succeeded; and it returns true exactly
\* when a click succeeded.
AtMostOneClickAttempted ==
  /\ Len(tried) <= 1
  /\ pc = "focus_end" => (out <=> \E i \in 1..Len(tried) : tried[i].ok)

\* C25 as amended: the labels are gone through in their fixed order and a click is
\* attempted on each label that becomes visible until one click succeeds: nothing
\* is attempted after a click that succeeded, the later labels are still tried after
\* a click that failed; it returns true exactly when a click succeeded.
ClicksStopAtFirstSuccess ==
  /\ \A i \in 1..(Len(tried) - 1) : ~tried[i].ok
  /\ \A i \in 1..Len(tried) : \E k \in 1..pos : tried[i].loc = TabLabels[k]
  /\ \A i, j \in 1..Len(tried) :
        i < j => \E k, l \in 1..Len(TabLabels) : k < l /\ tried[i].loc = TabLabels[k] /\ tried[j].loc = TabLabels[l]
  /\ pc = "focus" => (\A i \in 1..Len(tried) : ~tried[i].ok)
  /\ pc = "focus_end" =>
        /\ out <=> (tried # <<>> /\ tried[Len(tried)].ok)
        /\ ~out => pos = Len(TabLabels)
\* C25 witness: the click on a first visible label failed, the click on a later
\* label succeeded, and the call returned true.
SecondClickSucceeded ==
  pc = "focus_end" /\ out = TRUE /\ Len(tried) = 2 /\ ~tried[1].ok

Matches(f) == f.url \/ f.text
\* C24 as amended: the frames are gone through in document order and the first one
\* that matches, by its address or else by its visible text, is returned, whatever
\* the frames after it are; if no frame matches either way the root is used.
FirstMatchingFrameWins ==
  pc = "found" =>
    /\ out \in 0..Len(arg)
    /\ out = NoFrame => \A i \in 1..Len(arg) : ~Matches(arg[i])
    /\ out # NoFrame => (Matches(arg[out]) /\ \A i \in 1..(out - 1) : ~Matches(arg[i]))
\* C24 witness: the first frame matched by its text only and was returned although
\* a later frame has a portal address.
TextMatchBeforeAddressMatch ==
  /\ pc = "found" /\ out = 1 /\ ~arg[1].url /\ arg[1].text
  /\ \E j \in 2..Len(arg) : arg[j].url

\* C26: the "show more" click never clicks a candidate whose text contains a
\* forbidden substring or has length <= 3, in the direct label match and in the
\* generic scan alike; the scan runs only when the direct match clicked nothing;
\* at most one element is clicked per call, and the call returns true exactly when
\* a click occurred.
MoreClickRespectsBlocklist ==
  /\ \A i \in 1..Len(tried) : ~HasForbidden(tried[i].loc) /\ StripLen(tried[i].loc) > 3
  /\ Len(tried) <= 1
  /\ pc = "more_scan" => (tried = <<>> /\ pos = Len(MoreLabels))
  /\ \A i \in 1..Len(tried) : tried[i].via = "scan" => (pc = "more_end" /\ pos = Len(MoreLabels))
  /\ pc = "more_direct" => tried = <<>>
  /\ pc = "more_end" => (out <=> Len(tried) = 1)
\* C26 witness: no label gave a click, and the scan passed over a button with a
\* forbidden text and clicked the one after it.
ScanPassedOverForbidden ==
  /\ pc = "more_end" /\ out = TRUE /\ Len(arg) = 2
  /\ HasForbidden(arg[1]) /\ tried = <<MoreClick(arg[2], "scan")>>

Discovering == pc \in {"locate", "reveal", "reveal_end", "collect_initial", "from_loop", "mode_all", "collect_all"}

\* C27: failures of listing discovery and revealing are never fatal: with no billing
\* frame, a tab that cannot be focused, a listing that never shows, an entry
\* extraction that fails or an expand step that fails, the run goes on with the
\* entries it has (possibly none), reaches the filter and, with no entries, returns
\* the summary instead of raising.
DiscoveryFailuresAreNotFatal ==
  /\ [][Discovering => (pc' \notin {"fatal", "invalid"} /\ result' = NoResult)]_vars
  /\ [][Discovering =>
          (all_items' \in {all_items, _collect_invoice_items(dom', TRUE), _collect_invoice_items(dom', FALSE)})]_vars
  /\ [][(pc = "filter") => (filtered' = SortByKey(FilterItems(all_items, dfrom, dto)))]_vars
  /\ [](pc = "locate" => ENABLED (LocateListing /\ all_items' = <<>> /\ last_count' = 0))
  /\ []((pc = "reveal" /\ rounds < max_rounds) => ENABLED (RevealRound /\ n_items' = 0 /\ pc' = "reveal_end"))
  /\ []((pc = "filter" /\ all_items = <<>>) =>
          ENABLED (BuildQueue /\ pc' = "done" /\ result' = Summary("ok", 0, <<>>)))
\* C27 witness: the listing shows entries but every extraction failed: the run
\* stands at the filter with no entries and no error raised.
FilterReachedWithNothing ==
  pc = "filter" /\ all_items = <<>> /\ dom # <<>> /\ result = NoResult

\* C28: the authoritative date of an invoice is the date found by scanning the whole
\* text of its page: whenever the text contains a date in a recognised form, a
\* numeric form such as YYYY-MM-DD with other text around it included, that date is
\* the authoritative date; today's date is used only when the text has no date.
BodyDateIsAuthoritative ==
  pc = "ex_dated" => out = (IF arg.of # NoCal THEN arg.of ELSE TodayDate)

EndWrites == {i \in 1..Len(state_writes) : state_writes[i] = "end"}

\* C29 as stated: session state is written only immediately after a fresh login (no
\* valid stored session at start) and once at the end of a run that returns a
\* summary, on the empty-queue path and on the normal path; a run that ends with a
\* fatal error performs no end-of-run write; no run writes more than twice.
NoEndWriteOnFatalRun ==
  /\ state_writes \in {<<>>, <<"login">>, <<"end">>, <<"login", "end">>}
  /\ (state_writes # <<>> /\ state_writes[1] = "login") => ~has_cookies
  /\ pc = "done" => EndWrites # {}
  /\ pc \in {"fatal", "invalid"} => EndWrites = {}

\* C29 as amended: session state is written only immediately after a fresh login and
\* once in the end-of-run step, which the empty-queue path and the normal path both
\* go through before they close the browser: a run that returns a summary has made
\* exactly one end-of-run write, a run that ends fatally before that step has made
\* none, and a run that fails in closing the browser after the write ends fatally
\* with the write made; no run writes more than twice.
SessionWrittenAtLoginAndEndStep ==
  /\ [](state_writes \in {<<>>, <<"login">>, <<"end">>, <<"login", "end">>})
  /\ []((state_writes # <<>> /\ state_writes[1] = "login") => ~has_cookies)
  /\ []((pc \notin {"parse", "start", "fatal", "invalid"} /\ ~has_cookies) =>
          (state_writes # <<>> /\ state_writes[1] = "login"))
  /\ [](pc = "done" => EndWrites # {})
  /\ [][(state_writes' # state_writes) =>
          \/ pc = "start" /\ pc' = "navigate" /\ state_writes' = <<"login">>
          \/ pc = "filter" /\ filtered' = <<>> /\ state_writes' = Append(state_writes, "end")
          \/ pc = "finish" /\ state_writes' = Append(state_writes, "end")]_vars
  /\ [][(pc # "fatal" /\ pc' = "fatal" /\ pc \notin {"filter", "finish"}) => (EndWrites = {} /\ state_writes' = state_writes)]_vars
  /\ [][(pc \in {"filter", "finish"} /\ pc' \in {"done", "fatal"}) => (state_writes' = Append(state_writes, "end"))]_vars
\* C29 witness: a run that logged in afresh and returned its summary: two writes.
WroteAtLoginAndAtEnd ==
  pc = "done" /\ result.kind = "summary" /\ state_writes = <<"login", "end">> /\ filtered # <<>>

\* The queue items the loop has finished with.
Processed == IF pc = "open" THEN idx - 1 ELSE Len(filtered)

\* C30: descargadas counts exactly the items whose artifact was persisted, so that
\* no item is both counted and in the error list (an item whose save and whose
\* relocation both fail is an error and is not counted), and descargadas plus the
\* error entries plus the skipped items equals the number of queue items processed.
CountedMeansPersisted ==
  /\ descargadas = persisted
  /\ (pc = "return" /\ how = "failed") => descargadas + Len(errores) + skipped = idx
  /\ ((pc = "open" /\ filtered # <<>>) \/ LoopOver) => descargadas + Len(errores) + skipped = Processed

\* C31: every browser session an invocation launches is closed before the invocation
\* ends, on the empty-queue return, on the normal return and on the path where an
\* exception is caught and raised again as the wrapped fatal error.
EverySessionClosedAtExit ==
  pc \in {"done", "fatal", "invalid"} => browser \in {"none", "closed"}

\* C32: within one run no saved artifact is overwritten by a later item: two queue
\* items that are both saved go to distinct destination paths (also when they have
\* the same authoritative date, or both fall back to today's date), so the number
\* of items saved equals the number of distinct files written.
NoArtifactOverwritten ==
  /\ \A j, k \in 1..Len(files) : j < k => files[j][1] # files[k][1]
  /\ persisted = Cardinality(Paths(files))

\* C33: through the HTTP endpoint invocations run in isolation: two overlapping POST
\* requests never have descargar_facturas active at the same time (so state.json
\* and the destination paths never have two writers at once).
EndpointRunsInIsolation ==
  \A i, j \in Requests : (Active(i) /\ Active(j)) => i = j

\* The rows the run finalized as "Error": those the core was invoked for and raised.
ErrorRows == {k \in 1..Len(calls) : sheet[calls[k]].estado = "Error"}

\* C34: the summary of a batch run satisfies total_filas = procesadas + saltadas +
\* (rows finalized as Error), and the log records the outcome of every invoked row:
\* log_registrado is the number of rows the core was invoked for, whether the row
\* ended as success or as error.
SummaryAndLogCoverEveryRow ==
  pc = "b_done" =>
    /\ Len(df) = procesadas + saltadas + Cardinality(ErrorRows)
    /\ Len(log_entries) = Len(calls)

\* C35: a batch run leaves every row whose state is not the trigger value (compared
\* without regard to case and surrounding white space) untouched: no step changes
\* its state or result cell, in the row source or in the runner's copy, and the
\* core is not invoked for it; this holds of rows marked "Pendiente", "Ejecutado"
\* or "Error" before the run as of any other. (The row the runner has claimed is
\* "Pendiente" by the runner's own hand: it was in the trigger state when claimed.)
UntriggeredRowsUntouched ==
  /\ [][\A i \in 1..Len(sheet) :
          (~MatchesTrigger(sheet[i].estado) /\ ~(i = row /\ pc \in {"b_call", "b_final"})) =>
            /\ sheet'[i] = sheet[i]
            /\ df'[i] = df[i]
            /\ (\E k \in 1..Len(calls') : calls'[k] = i) => Called(i)]_vars
  /\ [][(pc = "b_loop" /\ pc' = "b_call") => (MatchesTrigger(sheet[row].estado) /\ row' = row)]_vars
  /\ [][(pc \in {"b_call", "b_final"} /\ pc' \in {"b_call", "b_final"}) => row' = row]_vars
  /\ [](\A i \in 1..Len(sheet) : Called(i) => sheet[i].estado \in {"Pendiente", "Ejecutado", "Error"})
  /\ [](\A i \in 1..Len(sheet) : (i < row /\ ~Called(i)) => ~MatchesTrigger(sheet[i].estado))
\* C35 witness: the Excel runner is done, it ran the core for the second row and wrote
\* the workbook back, and the first row, marked "Error" with an earlier result
\* before the run, was not invoked and reads as it did.
ErrorRowLeftAsItWas ==
  /\ pc = "b_done" /\ runner = "excel" /\ calls = <<2>>
  /\ sheet[1] = [estado |-> "Error", resultado |-> "anterior"]
  /\ sheet[2].estado = "Ejecutado"

====
